---- MODULE Spec2Model ----
(***************************************************************************)
(* Model of the TGAM byte-stream decoder (services/tgam_parser.py), the    *)
(* stream coordinator (services/eeg_data_coordinator.py), the frequency    *)
(* band engine (services/frequency_band_processor.py) and the record       *)
(* aggregator (services/data_processor.py).                                *)
(*                                                                         *)
(* Conventions                                                             *)
(*  - Python lists/deques are sequences; Python indexes are 0-based, so    *)
(*    payload[index] is written payload[index + 1].                        *)
(*  - eeg_uv = raw_value * 0.516 is kept exact as an integer number of     *)
(*    thousandths of a microvolt (raw_value * 516).                        *)
(*  - a Python exception escaping a method is the flag `raised`.           *)
(***************************************************************************)
EXTENDS Integers, Sequences, FiniteSets, TLC

(***************************************************************************)
(* Bounds of the model                                                     *)
(***************************************************************************)
MaxSegs == 3        \* segments (packets / stray bytes) in one input stream
MaxChunk == 3       \* bytes handed to one parse_stream call
MaxSamples == 128   \* raw samples passed to the coordinator in one run
MaxCalls == 3       \* calls made on a SerialManager from the main thread
MaxReads == 1       \* polls of the reader thread that find data
SmallBufferSize == 32    \* a buffer_size below the default, for EEGDataCoordinator(buffer_size=...)
MaxConfigCalls == 3      \* configuration calls made on one coordinator

(***************************************************************************)
(* Protocol constants (TGAMDataStreamParser.__init__)                      *)
(***************************************************************************)
HEADER_BYTE == 170  \* 0xAA
RAW_VALUE == 128    \* 0x80
POOR_SIGNAL == 2    \* 0x02
ATTENTION == 4      \* 0x04
MEDITATION == 5     \* 0x05
BLINK == 22         \* 0x16
EEG_POWER == 131    \* 0x83
MicrovoltScale == 516   \* eeg_uv = raw_value * 0.516, in thousandths

(***************************************************************************)
(* Generic helpers                                                         *)
(***************************************************************************)
RECURSIVE Flatten(_)
Flatten(ss) == IF ss = <<>> THEN <<>> ELSE Head(ss) \o Flatten(Tail(ss))

RECURSIVE SumSeq(_)
SumSeq(s) == IF s = <<>> THEN 0 ELSE Head(s) + SumSeq(Tail(s))

SeqsUpTo(S, n) == UNION {[1..k -> S] : k \in 0..n}

(***************************************************************************)
(* TGAMDataStreamParser                                                    *)
(***************************************************************************)

\* TGAMDataStreamParser.__init__ : the state after construction.
\* n_parse_payload counts the runs of _parse_payload (instrumentation).
ParserInit ==
    [state |-> 0, payload_length |-> 0, payload_data |-> <<>>, checksum |-> 0,
     parsed_data_list |-> <<>>, n_parse_payload |-> 0, raised |-> FALSE]

calculated_checksum_negated(checksum) == (-checksum) % 256

\* (~self.checksum) & 0xFF on an unbounded Python int: ~x = -x - 1.
calculated_checksum(checksum) == (-checksum - 1) % 256

\* Python sequence access payload[i]: IndexError outside 0..len-1.
InRange(payload, i) == i >= 0 /\ i < Len(payload)

\* guard of the RAW_VALUE branch: index + 2 <= len(payload)
RawGuard(payload, index) == index + 2 <= Len(payload)

OneByteGuardOffByOne(payload, index) == index <= Len(payload)

\* guard of the one-byte items (POOR_SIGNAL, ATTENTION, MEDITATION, BLINK):
\* index < len(payload)
OneByteGuard(payload, index) == index < Len(payload)

\* guard of the EEG_POWER branch: index + 25 <= len(payload)
PowerGuard(payload, index) == index + 25 <= Len(payload)

\* raw_value of the RAW_VALUE item: big-endian pair, then sign conversion.
raw_value_of_unsigned(hi, lo) == hi * 256 + lo

\* raw_value of the RAW_VALUE item: big-endian pair, then sign conversion.
raw_value_of(hi, lo) ==
    LET raw_value == hi * 256 + lo
    IN IF raw_value > 32767 THEN raw_value - 65536 ELSE raw_value

RawRecord(hi, lo) ==
    [type |-> "raw_eeg", raw_value |-> raw_value_of(hi, lo),
     eeg_uv |-> raw_value_of(hi, lo) * MicrovoltScale]

\* the 8 three-byte values of an EEG_POWER item starting at index
eeg_power_of_little_endian(payload, index) ==
    [i \in 1..8 |-> payload[index + 3 * (i - 1) + 3] * 65536
                    + payload[index + 3 * (i - 1) + 2] * 256
                    + payload[index + 3 * (i - 1) + 1]]

\* the 8 three-byte big-endian values of an EEG_POWER item starting at index
eeg_power_of(payload, index) ==
    [i \in 1..8 |-> payload[index + 3 * (i - 1) + 1] * 65536
                    + payload[index + 3 * (i - 1) + 2] * 256
                    + payload[index + 3 * (i - 1) + 3]]

index_after_unknown_tag(payload, index) == index

\* break: the while loop of _parse_payload is left, as if index had reached
\* len(payload)
index_after_break(payload, index) == Len(payload)

\* The while loop of _parse_payload. r = [out, raised]: records appended to
\* parsed_data_list so far, and whether an IndexError escaped.
RECURSIVE parse_items(_, _, _)
parse_items(payload, index, r) ==
    IF ~(index < Len(payload)) THEN r
    ELSE
      LET data_type == payload[index + 1]
          i == index + 1
          Raise == [r EXCEPT !.raised = TRUE]
          OneByte(rec) ==
              IF ~InRange(payload, i) THEN Raise
              ELSE parse_items(payload, i + 1, [r EXCEPT !.out = Append(r.out, rec)])
      IN
      IF data_type = RAW_VALUE /\ RawGuard(payload, i) THEN
          IF ~(InRange(payload, i) /\ InRange(payload, i + 1)) THEN Raise
          ELSE parse_items(payload, i + 2,
                   [r EXCEPT !.out = Append(r.out, RawRecord(payload[i + 1], payload[i + 2]))])
      ELSE IF data_type = POOR_SIGNAL /\ OneByteGuard(payload, i) THEN
          OneByte([type |-> "signal_quality",
                   signal_quality |-> IF InRange(payload, i) THEN payload[i + 1] ELSE 0])
      ELSE IF data_type = ATTENTION /\ OneByteGuard(payload, i) THEN
          OneByte([type |-> "attention",
                   attention |-> IF InRange(payload, i) THEN payload[i + 1] ELSE 0])
      ELSE IF data_type = MEDITATION /\ OneByteGuard(payload, i) THEN
          OneByte([type |-> "meditation",
                   meditation |-> IF InRange(payload, i) THEN payload[i + 1] ELSE 0])
      ELSE IF data_type = BLINK /\ OneByteGuard(payload, i) THEN
          OneByte([type |-> "blink",
                   blink_strength |-> IF InRange(payload, i) THEN payload[i + 1] ELSE 0])
      ELSE IF data_type = EEG_POWER /\ PowerGuard(payload, i) THEN
          IF ~InRange(payload, i) THEN Raise
          ELSE
            LET power_data_length == payload[i + 1]
                j == i + 1
            IN IF power_data_length = 24 /\ j + 24 <= Len(payload) THEN
                   parse_items(payload, j + 24,
                       [r EXCEPT !.out = Append(r.out,
                           [type |-> "eeg_power", eeg_power |-> eeg_power_of(payload, j)])])
               ELSE parse_items(payload, j + power_data_length, r)
      ELSE parse_items(payload, index_after_break(payload, i), r)   \* unknown tag or incomplete item: warning, break

\* TGAMDataStreamParser._parse_payload, applied to the parser p.
parse_payload(p, payload) ==
    IF payload = <<>> THEN [p EXCEPT !.n_parse_payload = @ + 1]
    ELSE LET r == parse_items(payload, 0, [out |-> p.parsed_data_list, raised |-> FALSE])
         IN [p EXCEPT !.parsed_data_list = r.out, !.raised = r.raised,
                      !.n_parse_payload = @ + 1]

\* TGAMDataStreamParser._parse_byte
parse_byte(p, byte) ==
    CASE p.state = 0 ->
           IF byte = HEADER_BYTE THEN [p EXCEPT !.state = 1] ELSE p
      [] p.state = 1 ->
           IF byte = HEADER_BYTE THEN [p EXCEPT !.state = 2] ELSE [p EXCEPT !.state = 0]
      [] p.state = 2 ->
           [p EXCEPT !.payload_length = byte, !.payload_data = <<>>,
                     !.checksum = 0, !.state = 3]
      [] p.state = 3 ->
           LET pd == Append(p.payload_data, byte)
           IN [p EXCEPT !.payload_data = pd, !.checksum = @ + byte,
                        !.state = IF Len(pd) = p.payload_length THEN 4 ELSE 3]
      [] p.state = 4 ->
           IF byte = calculated_checksum(p.checksum) THEN
               LET q == parse_payload(p, p.payload_data)
               IN IF q.raised THEN q          \* the exception skips the reset
                  ELSE [q EXCEPT !.state = 0]
           ELSE [p EXCEPT !.state = 0]        \* checksum warning, reset
      [] OTHER -> p

\* the for loop of parse_stream; an escaping exception ends it
RECURSIVE parse_bytes(_, _)
parse_bytes(p, data) ==
    IF data = <<>> \/ p.raised THEN p
    ELSE parse_bytes(parse_byte(p, Head(data)), Tail(data))

parse_stream_keep_list(p, data) == parse_bytes(p, data)

\* TGAMDataStreamParser.parse_stream: the parser after the call; the list
\* it returns is the parsed_data_list of the result.
parse_stream(p, data) == parse_bytes([p EXCEPT !.parsed_data_list = <<>>], data)

\* TGAMDataStreamParser.clear_buffer
clear_buffer(p) ==
    [p EXCEPT !.state = 0, !.payload_length = 0, !.payload_data = <<>>,
              !.checksum = 0, !.parsed_data_list = <<>>]

(***************************************************************************)
(* Python dicts: functions over string keys                                *)
(***************************************************************************)
EmptyDict == [k \in {} |-> 0]
Has(d, k) == k \in DOMAIN d
\* d[k] = v
Put(d, k, v) == [x \in DOMAIN d \cup {k} |-> IF x = k THEN v ELSE d[x]]
\* d.update(e)
Update(d, e) == [x \in DOMAIN d \cup DOMAIN e |-> IF x \in DOMAIN e THEN e[x] ELSE d[x]]

\* deque(maxlen = n).append(v): the oldest entry is dropped when full
DequeAppend(q, v, maxlen) ==
    LET a == Append(q, v)
    IN IF Len(a) > maxlen THEN Tail(a) ELSE a

\* time.time(): an opaque reading of the clock
Now == "now"

(***************************************************************************)
(* FrequencyBandProcessor                                                  *)
(***************************************************************************)
BandNames ==
    {"delta", "theta", "alpha_low", "alpha_high",
     "beta_low", "beta_high", "gamma_low", "gamma_high"}

MinFilterSamples == 64   \* len(self.raw_eeg_buffer) >= 64

\* A dict over self.frequency_bands.keys(), one value per band
PerBand(delta, theta, alpha_low, alpha_high, beta_low, beta_high, gamma_low, gamma_high) ==
    [delta |-> delta, theta |-> theta,
     alpha_low |-> alpha_low, alpha_high |-> alpha_high,
     beta_low |-> beta_low, beta_high |-> beta_high,
     gamma_low |-> gamma_low, gamma_high |-> gamma_high]

\* {band: deque(maxlen=buffer_size) for band in self.frequency_bands.keys()}
EmptyBands == PerBand(<<>>, <<>>, <<>>, <<>>, <<>>, <<>>, <<>>, <<>>)

FbpDefaultBufferSize == 1000   \* FrequencyBandProcessor(sample_rate, buffer_size=1000)

\* FrequencyBandProcessor.__init__.
\* n_process_frequency_bands counts the recomputes (instrumentation).
FrequencyBandProcessorInit(sample_rate, buffer_size) ==
    [sample_rate |-> sample_rate, buffer_size |-> buffer_size,
     raw_eeg_buffer |-> <<>>,
     filtered_signals |-> EmptyBands,
     n_process_frequency_bands |-> 0]

\* _filter_signal(eeg_data, band_name)[-1]: the band value is a number that
\* depends on the whole window; it is kept as the window it was computed
\* from, named by its newest sample and its length.
filter_last(eeg_data, band_name) == [last |-> eeg_data[Len(eeg_data)], n |-> Len(eeg_data)]

append_filtered_below_gamma_high(f, band_name) ==
    IF band_name = "gamma_high" THEN f.filtered_signals[band_name]
    ELSE DequeAppend(f.filtered_signals[band_name],
                     filter_last(f.raw_eeg_buffer, band_name), f.buffer_size)

\* self.filtered_signals[band_name].append(filtered_signal[-1])
append_filtered(f, band_name) ==
    DequeAppend(f.filtered_signals[band_name],
                filter_last(f.raw_eeg_buffer, band_name), f.buffer_size)

\* FrequencyBandProcessor._process_frequency_bands
process_frequency_bands(f) ==
    IF Len(f.raw_eeg_buffer) < MinFilterSamples THEN f
    ELSE [f EXCEPT
            !.filtered_signals =
                PerBand(append_filtered(f, "delta"), append_filtered(f, "theta"),
                        append_filtered(f, "alpha_low"), append_filtered(f, "alpha_high"),
                        append_filtered(f, "beta_low"), append_filtered(f, "beta_high"),
                        append_filtered(f, "gamma_low"), append_filtered(f, "gamma_high")),
            !.n_process_frequency_bands = @ + 1]

\* FrequencyBandProcessor.add_eeg_data
add_eeg_data(f, eeg_value) ==
    LET g == [f EXCEPT !.raw_eeg_buffer = DequeAppend(@, eeg_value, f.buffer_size)]
    IN IF Len(g.raw_eeg_buffer) >= MinFilterSamples THEN process_frequency_bands(g) ELSE g

latest_of_oldest(data) ==
    IF data # <<>> THEN data[1] ELSE [last |-> 0, n |-> 0]

\* data[-1] if data else 0.0
latest_of(data) ==
    IF data # <<>> THEN data[Len(data)] ELSE [last |-> 0, n |-> 0]

\* FrequencyBandProcessor.get_latest_frequency_band_data
get_latest_frequency_band_data(f) ==
    PerBand(latest_of(f.filtered_signals.delta), latest_of(f.filtered_signals.theta),
            latest_of(f.filtered_signals.alpha_low), latest_of(f.filtered_signals.alpha_high),
            latest_of(f.filtered_signals.beta_low), latest_of(f.filtered_signals.beta_high),
            latest_of(f.filtered_signals.gamma_low), latest_of(f.filtered_signals.gamma_high))

\* FrequencyBandProcessor.clear_buffers
fbp_clear_window_only(f) == [f EXCEPT !.raw_eeg_buffer = <<>>]

\* FrequencyBandProcessor.clear_buffers
fbp_clear_buffers(f) ==
    [f EXCEPT !.raw_eeg_buffer = <<>>,
              !.filtered_signals = EmptyBands]

(***************************************************************************)
(* DataProcessorManager and its accumulators                               *)
(***************************************************************************)
MaxBufferSize == 1000    \* RawEEGProcessor max_buffer_size

\* DataProcessorManager.__init__: one accumulator per record kind; the power
\* data of the EEGPowerProcessor is kept in band order (delta, theta,
\* low_alpha, high_alpha, low_beta, high_beta, low_gamma, high_gamma)
RawEEGProcessorInit(max_buffer_size) ==
    [max_buffer_size |-> max_buffer_size, eeg_buffer |-> <<>>, timestamp_buffer |-> <<>>]

DataProcessorManagerInit ==
    [raw_eeg |-> RawEEGProcessorInit(MaxBufferSize),
     signal_quality |-> [latest_signal_quality |-> 0],
     attention |-> [latest_attention |-> 0, latest_meditation |-> 0],
     meditation |-> [latest_attention |-> 0, latest_meditation |-> 0],
     eeg_power |-> [latest_power_data |-> [i \in 1..8 |-> 0]]]

\* AttentionMeditationProcessor.process_data: [proc, result]
attention_meditation_process(proc, data) ==
    LET p1 == IF Has(data, "attention")
              THEN [proc EXCEPT !.latest_attention = data["attention"]] ELSE proc
        p2 == IF Has(data, "meditation")
              THEN [p1 EXCEPT !.latest_meditation = data["meditation"]] ELSE p1
        r0 == [timestamp |-> Now]
        r1 == IF Has(data, "attention")
              THEN Put(Put(r0, "attention", data["attention"]), "type", "attention") ELSE r0
        r2 == IF Has(data, "meditation")
              THEN Put(Put(r1, "meditation", data["meditation"]), "type",
                       IF Has(r1, "type") THEN "both" ELSE "meditation")
              ELSE r1
    IN [proc |-> p2, result |-> IF Has(r2, "type") THEN r2 ELSE EmptyDict]

\* RawEEGProcessor.process_data: [proc, result]
raw_eeg_process_data(proc, data) ==
    IF Has(data, "eeg_uv")
    THEN [proc |-> [proc EXCEPT
                      !.eeg_buffer = DequeAppend(@, data["eeg_uv"], proc.max_buffer_size),
                      !.timestamp_buffer = DequeAppend(@, Now, proc.max_buffer_size)],
          result |-> [type |-> "processed_eeg", eeg_uv |-> data["eeg_uv"], timestamp |-> Now]]
    ELSE [proc |-> proc, result |-> EmptyDict]

\* np.max, np.min of a non-empty list
RECURSIVE np_max(_)
np_max(x) ==
    IF Len(x) = 1 THEN x[1]
    ELSE LET m == np_max(Tail(x)) IN IF x[1] > m THEN x[1] ELSE m

RECURSIVE np_min(_)
np_min(x) ==
    IF Len(x) = 1 THEN x[1]
    ELSE LET m == np_min(Tail(x)) IN IF x[1] < m THEN x[1] ELSE m

\* np.mean: sum(x) / len(x), kept as the pair of its terms
np_mean(x) == <<SumSeq(x), Len(x)>>

\* np.std: sqrt(mean(abs(x - x.mean()) ** 2)); kept as the pair of the terms
\* of its square, with the deviations n * x[i] - sum(x) scaled by n = len(x)
np_std(x) ==
    LET n == Len(x)
        S == SumSeq(x)
    IN <<SumSeq([i \in 1..n |-> (n * x[i] - S) * (n * x[i] - S)]), n * n * n>>

\* RawEEGProcessor.get_processed_data
latest_is_first(eeg_data) == eeg_data[1]

\* RawEEGProcessor.get_processed_data: eeg_data[-1]
latest_is_last(eeg_data) == eeg_data[Len(eeg_data)]

\* RawEEGProcessor.get_processed_data
raw_eeg_get_processed_data(proc) ==
    IF proc.eeg_buffer = <<>> THEN EmptyDict
    ELSE LET eeg_data == proc.eeg_buffer
         IN [mean |-> np_mean(eeg_data), std |-> np_std(eeg_data),
             max |-> np_max(eeg_data), min |-> np_min(eeg_data),
             latest |-> latest_is_last(eeg_data)]

\* SignalQualityProcessor.process_data, lines 123-126
quality_level_of_inclusive(q) ==
    IF q <= 10 THEN "excellent"
    ELSE IF q <= 20 THEN "good"
    ELSE IF q <= 40 THEN "fair"
    ELSE IF q <= 70 THEN "poor" ELSE "very poor"

\* SignalQualityProcessor.process_data, lines 123-126: the level names are
\* the English of the five Chinese strings, in the order of the source
quality_level_of(q) ==
    IF q < 10 THEN "excellent"
    ELSE IF q < 20 THEN "good"
    ELSE IF q < 40 THEN "fair"
    ELSE IF q < 70 THEN "poor" ELSE "very poor"

\* DataProcessorManager.process_data, line 278: self.processors[data['type']]
processor_of_shared(kind) == IF kind = "meditation" THEN "attention" ELSE kind

\* DataProcessorManager.process_data, line 278: self.processors[data['type']]
processor_of(kind) == kind

\* the keys of DataProcessorManager.processors
ProcessorKinds == {"raw_eeg", "signal_quality", "attention", "meditation", "eeg_power"}

\* DataProcessorManager.process_data: [dpm, results]; the processor is chosen
\* by data['type'] and an empty result is not appended
dpm_process_data(m, data) ==
    IF ~Has(data, "type") THEN [dpm |-> m, results |-> <<>>]
    ELSE
    CASE data["type"] = "raw_eeg" ->
           LET a == raw_eeg_process_data(m.raw_eeg, data)
           IN [dpm |-> [m EXCEPT !.raw_eeg = a.proc],
               results |-> IF DOMAIN a.result = {} THEN <<>> ELSE <<a.result>>]
      [] data["type"] = "signal_quality" ->
           IF Has(data, "signal_quality") THEN
             LET q == data["signal_quality"]
                 quality_level == quality_level_of(q)
             IN [dpm |-> [m EXCEPT !.signal_quality.latest_signal_quality = q],
                 results |-> <<[type |-> "signal_quality", signal_quality |-> q,
                                quality_level |-> quality_level, timestamp |-> Now]>>]
           ELSE [dpm |-> m, results |-> <<>>]
      [] data["type"] = "attention" ->
           LET k == processor_of("attention")
               a == attention_meditation_process(m[k], data)
           IN [dpm |-> [m EXCEPT ![k] = a.proc],
               results |-> IF DOMAIN a.result = {} THEN <<>> ELSE <<a.result>>]
      [] data["type"] = "meditation" ->
           LET k == processor_of("meditation")
               a == attention_meditation_process(m[k], data)
           IN [dpm |-> [m EXCEPT ![k] = a.proc],
               results |-> IF DOMAIN a.result = {} THEN <<>> ELSE <<a.result>>]
      [] data["type"] = "eeg_power" ->
           IF Has(data, "eeg_power") /\ Len(data["eeg_power"]) = 8 THEN
             LET power == data["eeg_power"]
                 total_power == SumSeq(power)
                 \* value / total_power, kept as the pair of its terms
                 relative_power == [i \in 1..8 |->
                     IF total_power > 0 THEN <<power[i], total_power>> ELSE <<0, 1>>]
             IN [dpm |-> [m EXCEPT !.eeg_power.latest_power_data = power],
                 results |-> <<[type |-> "eeg_power", eeg_power |-> power,
                                absolute_power |-> power,
                                relative_power |-> relative_power, timestamp |-> Now]>>]
           ELSE [dpm |-> m, results |-> <<>>]
      [] OTHER -> [dpm |-> m, results |-> <<>>]

\* RawEEGProcessor.clear_buffer
raw_eeg_clear_oldest(p) ==
    [p EXCEPT !.eeg_buffer = IF @ = <<>> THEN @ ELSE Tail(@),
              !.timestamp_buffer = IF @ = <<>> THEN @ ELSE Tail(@)]

\* RawEEGProcessor.clear_buffer
raw_eeg_clear_buffer(p) ==
    [p EXCEPT !.eeg_buffer = <<>>, !.timestamp_buffer = <<>>]

\* SignalQualityProcessor.clear_buffer
signal_quality_clear_buffer(p) == [p EXCEPT !.latest_signal_quality = 0]

\* AttentionMeditationProcessor.clear_buffer
attention_meditation_clear_buffer(p) ==
    [p EXCEPT !.latest_attention = 0, !.latest_meditation = 0]

\* EEGPowerProcessor.clear_buffer
eeg_power_clear_buffer(p) == [p EXCEPT !.latest_power_data = [i \in 1..8 |-> 0]]

\* DataProcessorManager.clear_all_buffers: clear_buffer of every accumulator
clear_all_buffers(m) ==
    [m EXCEPT !.raw_eeg = raw_eeg_clear_buffer(@),
              !.signal_quality = signal_quality_clear_buffer(@),
              !.attention = attention_meditation_clear_buffer(@),
              !.meditation = attention_meditation_clear_buffer(@),
              !.eeg_power = eeg_power_clear_buffer(@)]

(***************************************************************************)
(* EEGDataCoordinator                                                      *)
(***************************************************************************)
DefaultTempBufferSize == 64    \* self.temp_buffer_size = 64
DefaultSampleRate == 512       \* EEGDataCoordinator(sample_rate=512, ...)
DefaultBufferSize == 1000      \* EEGDataCoordinator(..., buffer_size=1000)

\* EEGDataCoordinator.__init__. emitted lists the Qt signals emitted by the
\* call in progress; n_process_band_data counts the batch flushes
\* (instrumentation); deque_maxlen is the maxlen the two deques of the
\* coordinator were built with; raised tells that the call in progress ended
\* with an exception; n_config counts the configuration calls made.
CoordinatorInit(sample_rate, buffer_size) ==
    [sample_rate |-> sample_rate, buffer_size |-> buffer_size,
     frequency_band_processor |-> FrequencyBandProcessorInit(sample_rate, FbpDefaultBufferSize),
     data_processor_manager |-> DataProcessorManagerInit,
     latest_raw_eeg |-> 0, latest_frequency_bands |-> EmptyDict,
     latest_attention |-> 0, latest_meditation |-> 0, latest_signal_quality |-> 0,
     raw_eeg_buffer |-> <<>>, eeg_uv_buffer |-> <<>>, deque_maxlen |-> buffer_size,
     is_processing |-> TRUE,
     temp_buffer |-> <<>>, temp_buffer_size |-> DefaultTempBufferSize,
     emitted |-> <<>>, n_process_band_data |-> 0, raised |-> FALSE, n_config |-> 0]

Emit(c, signal, data) == [c EXCEPT !.emitted = Append(@, [signal |-> signal, data |-> data])]

\* for value in eeg_data: self.frequency_band_processor.add_eeg_data(value)
\* (the values are added in order; the loop is split in halves, which keeps
\* the evaluation shallow)
RECURSIVE add_all(_, _)
add_all(f, values) ==
    IF values = <<>> THEN f
    ELSE IF Len(values) = 1 THEN add_eeg_data(f, values[1])
    ELSE LET h == Len(values) \div 2
             g == add_all(f, SubSeq(values, 1, h))
         IN \* the first half is evaluated before the second half starts
            IF Len(g.raw_eeg_buffer) >= 0 THEN add_all(g, SubSeq(values, h + 1, Len(values)))
            ELSE g

\* the guard of _process_band_data
band_data_skipped_while_short(c) == Len(c.temp_buffer) < c.temp_buffer_size

\* the guard of _process_band_data
band_data_skipped(c) == ~c.is_processing \/ Len(c.temp_buffer) < c.temp_buffer_size

\* EEGDataCoordinator._process_band_data
process_band_data(c) ==
    IF band_data_skipped(c) THEN c
    ELSE
      LET f == add_all(c.frequency_band_processor, c.temp_buffer)
          band_powers == get_latest_frequency_band_data(f)
          c1 == [c EXCEPT !.frequency_band_processor = f,
                          !.latest_frequency_bands = band_powers,
                          !.temp_buffer = <<>>,
                          !.n_process_band_data = @ + 1]
          c2 == Emit(c1, "frequency_bands_updated", band_powers)
      IN Emit(c2, "processed_data_available",
              [frequency_bands |-> band_powers,
               eeg_uv |-> IF c.eeg_uv_buffer # <<>>
                          THEN c.eeg_uv_buffer[Len(c.eeg_uv_buffer)] ELSE 0])

\* EEGDataCoordinator.process_buffer_data, the slot of the 100 ms timer
process_buffer_data(c) ==
    IF ~c.is_processing THEN c
    ELSE IF Len(c.temp_buffer) > 0 THEN process_band_data(c) ELSE c

\* process_eeg_data, lines 70-92: the 'eeg_uv' part; [c, result]
process_raw_part(c, eeg_data, result) ==
    IF ~Has(eeg_data, "eeg_uv") THEN [c |-> c, result |-> result]
    ELSE
      LET eeg_value == eeg_data["eeg_uv"]
          c1 == [c EXCEPT !.latest_raw_eeg = eeg_value,
                          !.raw_eeg_buffer = DequeAppend(@, eeg_value, c.deque_maxlen),
                          !.eeg_uv_buffer = DequeAppend(@, eeg_value, c.deque_maxlen),
                          !.temp_buffer = Append(@, eeg_value)]
          c2 == IF Len(c1.temp_buffer) >= c1.temp_buffer_size
                THEN process_band_data(c1) ELSE c1
          c3 == Emit(c2, "raw_eeg_updated", eeg_value)
          c4 == Emit(c3, "processed_data_available",
                     [eeg_raw |-> eeg_value, eeg_uv |-> eeg_value])
      IN [c |-> c4, result |-> Put(result, "raw_eeg", eeg_value)]

\* process_eeg_data, lines 94-105: the cached scalars; [c, result]
process_scalar_part(c, eeg_data, result) ==
    LET c1 == IF Has(eeg_data, "attention")
              THEN [c EXCEPT !.latest_attention = eeg_data["attention"]] ELSE c
        r1 == IF Has(eeg_data, "attention")
              THEN Put(result, "attention", eeg_data["attention"]) ELSE result
        c2 == IF Has(eeg_data, "meditation")
              THEN [c1 EXCEPT !.latest_meditation = eeg_data["meditation"]] ELSE c1
        r2 == IF Has(eeg_data, "meditation")
              THEN Put(r1, "meditation", eeg_data["meditation"]) ELSE r1
        c3 == IF Has(eeg_data, "signal_quality")
              THEN [c2 EXCEPT !.latest_signal_quality = eeg_data["signal_quality"]] ELSE c2
        r3 == IF Has(eeg_data, "signal_quality")
              THEN Put(r2, "signal_quality", eeg_data["signal_quality"]) ELSE r2
    IN [c |-> c3, result |-> r3]

RECURSIVE update_all(_, _)
update_all(result, processed_results) ==
    IF processed_results = <<>> THEN result
    ELSE update_all(Update(result, Head(processed_results)), Tail(processed_results))

emit_combined_raw_only(c, eeg_data, result) ==
    IF Has(eeg_data, "eeg_uv") THEN Emit(c, "combined_data_updated", result) ELSE c

\* process_eeg_data, line 113: self.combined_data_updated.emit(result)
emit_combined(c, eeg_data, result) == Emit(c, "combined_data_updated", result)

\* EEGDataCoordinator.process_eeg_data: the coordinator after the call
process_eeg_data(c, eeg_data) ==
    LET result == [timestamp |-> IF Has(eeg_data, "timestamp") THEN eeg_data["timestamp"] ELSE 0,
                   type |-> "combined_eeg_data"]
        a == process_raw_part(c, eeg_data, result)
        b == process_scalar_part(a.c, eeg_data, a.result)
        d == dpm_process_data(b.c.data_processor_manager, eeg_data)
        c5 == [b.c EXCEPT !.data_processor_manager = d.dpm]
    IN emit_combined(c5, eeg_data, update_all(b.result, d.results))

\* EEGDataCoordinator.get_latest_frequency_bands
get_latest_frequency_bands(c) == c.latest_frequency_bands

\* EEGDataCoordinator.clear_all_data
clear_all_data(c) ==
    [c EXCEPT !.frequency_band_processor = fbp_clear_buffers(@),
              !.data_processor_manager = clear_all_buffers(@),
              !.latest_raw_eeg = 0, !.latest_frequency_bands = EmptyDict,
              !.latest_attention = 0, !.latest_meditation = 0,
              !.latest_signal_quality = 0]

\* EEGDataCoordinator.set_buffer_size. deque(maxlen=buffer_size) raises
\* ValueError for a negative maxlen, after self.buffer_size was assigned.
set_buffer_size(c, buffer_size) ==
    IF buffer_size # c.buffer_size
    THEN IF buffer_size < 0
         THEN [c EXCEPT !.buffer_size = buffer_size, !.raised = TRUE]
         ELSE [c EXCEPT !.buffer_size = buffer_size,
                        !.frequency_band_processor =
                            FrequencyBandProcessorInit(c.sample_rate, buffer_size)]
    ELSE c

MinTempBufferSize == 16    \* max(16, ...)
MaxTempBufferSize == 256   \* min(size, 256)

\* EEGDataCoordinator.set_temp_buffer_size
set_temp_buffer_size(c, size) ==
    LET capped == IF size < MaxTempBufferSize THEN size ELSE MaxTempBufferSize
    IN [c EXCEPT !.temp_buffer_size =
                     IF capped > MinTempBufferSize THEN capped ELSE MinTempBufferSize]

\* EEGDataCoordinator.start_processing
start_processing(c) == [c EXCEPT !.is_processing = TRUE]

\* EEGDataCoordinator.stop_processing
stop_processing(c) == [c EXCEPT !.is_processing = FALSE]

(***************************************************************************)
(* The byte source: packets as the sender builds them, and line noise      *)
(***************************************************************************)

\* TGAMSimulator._checksum
checksum_of(data_bytes) == (-SumSeq(data_bytes) - 1) % 256

\* TGAMSimulator.generate_raw_packet: [0xAA, 0xAA, payload_len] + payload + [c]
Packet(payload, c) == <<HEADER_BYTE, HEADER_BYTE, Len(payload)>> \o payload \o <<c>>

\* payloads put on the wire
P_empty == <<>>                          \* declared length 0
P_attention == <<ATTENTION, 50>>         \* one attention item
P_test == <<RAW_VALUE, 2, 1, 2>>         \* payload of the __main__ test data
P_unknown == <<ATTENTION, 50, 255>>      \* an item, then an unknown tag
P_rawcut == <<RAW_VALUE, 1>>             \* a raw item cut after one byte
Payloads == {P_empty, P_attention, P_test, P_unknown, P_rawcut}

\* a framed segment with the right checksum byte or with one that is off by one
FrameSeg(payload, good) ==
    LET c == IF good THEN checksum_of(payload) ELSE (checksum_of(payload) + 255) % 256
    IN [framed |-> TRUE, payload |-> payload, c |-> c, bytes |-> Packet(payload, c)]

\* stray bytes between packets
StraySeg(b) == [framed |-> FALSE, payload |-> <<>>, c |-> b, bytes |-> <<b>>]

Segments ==
    {FrameSeg(pl, g) : pl \in Payloads, g \in BOOLEAN} \cup {StraySeg(HEADER_BYTE), StraySeg(0)}

\* bytes([0xAA, 0xAA, 0x04, 0x80, 0x02, 0x01, 0x02, 0x79]) of the __main__ test
test_data == <<170, 170, 4, 128, 2, 1, 2, 121>>

(***************************************************************************)
(* SerialManager: the transport, the port list, open and close             *)
(***************************************************************************)

\* the port names a caller can ask for
PortNames == {"COM3", "COM9"}

\* An exception message. The code looks for substrings; a message is kept as
\* its text together with the set of known signatures that occur in it.
ErrorStr(text, contains) == [text |-> text, contains |-> contains]
NoError == ErrorStr("", {})

\* the failures the operating system reports for an open or a read
Failures ==
    {ErrorStr("read timeout", {"timeout"}),
     ErrorStr("Permission denied", {"permission"}),
     ErrorStr("Input/output error", {})}

\* the text handed to connection_error.emit: its kind, and the raw message
\* where the code puts it into the text
Message(kind, raw) == [kind |-> kind, raw |-> raw]
\* a signal without arguments
NoData == Message("", "")

\* SerialManager._get_friendly_error_message
get_friendly_error_message(error_str) ==
    IF "timeout" \in error_str.contains THEN Message("timeout", "")
    ELSE IF "permission" \in error_str.contains THEN Message("permission-denied", "")
    ELSE IF "not exist" \in error_str.contains THEN Message("not-found", "")
    ELSE IF "in use" \in error_str.contains THEN Message("busy", "")
    ELSE Message("unknown", error_str.text)

\* self.serial_port: None, or a SerialPortWrapper around a transport
NoPort == [exists |-> FALSE, port_name |-> "", is_open |-> FALSE]

\* SerialPortWrapper.__init__
SerialPortWrapper(port_name) == [exists |-> TRUE, port_name |-> port_name, is_open |-> FALSE]

\* SerialPortWrapper.is_open
wrapper_is_open(w) == w.exists /\ w.is_open

\* SerialPortWrapper.open: serial.Serial(...) succeeds (outcome NoError) or
\* raises; the exception is printed and swallowed, the result is a boolean
wrapper_open(w, outcome) == [w EXCEPT !.is_open = (outcome = NoError)]

\* SerialPortWrapper.close
wrapper_close(w) == IF wrapper_is_open(w) THEN [w EXCEPT !.is_open = FALSE] ELSE w

\* what the enumerators of one update_port_list did (instrumentation): what
\* StandardPortEnumerator returned, and whether WindowsPortEnumerator ran
NotEnumerated == [standard |-> <<>>, probed |-> FALSE]

\* SerialManager.__init__. emitted lists the signals of the call in
\* progress, result its return value, tried the outcomes of the transport
\* open attempts of the call, lifecycle what the port_opened and port_closed
\* signals emitted since construction, by any thread, amount to: "none", the
\* last one while they have alternated from a port_opened on, "unpaired"
\* once they have not (instrumentation).
SerialManagerInit ==
    [serial_port |-> NoPort, running |-> FALSE, connected |-> FALSE,
     port_name |-> "", ports |-> <<>>,
     data_processor |-> DataProcessorManagerInit,
     emitted |-> <<>>, result |-> "None", tried |-> <<>>,
     enumerated |-> NotEnumerated, lifecycle |-> "none"]

LifecycleSignals == {"port_opened", "port_closed"}

\* the lifecycle after one more signal
lifecycle_after(lifecycle, signal) ==
    IF signal \notin LifecycleSignals THEN lifecycle
    ELSE IF lifecycle = "unpaired" THEN "unpaired"
    ELSE IF signal = "port_opened"
         THEN (IF lifecycle = "port_opened" THEN "unpaired" ELSE "port_opened")
         ELSE (IF lifecycle = "port_opened" THEN "port_closed" ELSE "unpaired")

Signal(m, signal, data) ==
    [m EXCEPT !.emitted = Append(@, [signal |-> signal, data |-> data]),
              !.lifecycle = lifecycle_after(@, signal)]

\* a sequence holding the members of a set of port names, in name order
RECURSIVE PortList(_)
PortList(S) ==
    IF S = {} THEN <<>>
    ELSE LET first == CHOOSE x \in S : \A y \in S : x = y \/ (x = "COM3" /\ y = "COM9")
         IN <<first>> \o PortList(S \ {first})

InList(x, list) == \E i \in 1..Len(list) : list[i] = x

\* the result of WindowsPortEnumerator.enumerate_ports: the ports it could
\* open, or an exception other than OSError / SerialException
Probe(raised, ports) == [raised |-> raised, ports |-> ports]

use_next_enumerator_always(ports) == TRUE

\* update_port_list, lines 187-190: 'if ports: ... break' leaves the loop,
\* an empty list goes on to the next enumerator
use_next_enumerator(ports) == ports = <<>>

\* SerialManager.update_port_list: the first enumerator that finds ports
\* wins; standard_ports is what StandardPortEnumerator returns ([] also when
\* comports() raised), probe what WindowsPortEnumerator does when it is run;
\* its exception is caught at line 191
update_port_list(m, standard_ports, probe) ==
    LET probed == use_next_enumerator(standard_ports)
        ports == IF probed
                 THEN (IF probe.raised THEN <<>> ELSE probe.ports)
                 ELSE standard_ports
    IN Signal([m EXCEPT !.ports = ports,
                        !.enumerated = [standard |-> standard_ports, probed |-> probed]],
              "port_list_updated", NoData)

\* SerialManager.set_port
set_port(m, port_name) == [m EXCEPT !.port_name = port_name]

MaxRetries == 3   \* max_retries = 3

\* open_serial, lines 286-300: the retry loop; outcomes[k] is what the k-th
\* serial.Serial(...) call does. [w, tried]: the wrapper, and the outcomes
\* of the attempts made
retry_stops_never(w) == FALSE

\* line 288: if self.serial_port.open(): break
retry_stops(w) == wrapper_is_open(w)

RECURSIVE open_with_retries(_, _, _)
open_with_retries(w, outcomes, attempt) ==
    IF attempt >= MaxRetries THEN [w |-> w, tried |-> SubSeq(outcomes, 1, attempt)]
    ELSE LET w1 == wrapper_open(w, outcomes[attempt + 1])
         IN IF retry_stops(w1) THEN [w |-> w1, tried |-> SubSeq(outcomes, 1, attempt + 1)]
            ELSE open_with_retries(w1, outcomes, attempt + 1)

\* SerialManager.open_serial
open_serial(m, standard_ports, probe, outcomes) ==
    IF m.port_name = ""
    THEN [Signal(m, "connection_error", Message("no-port-selected", ""))
            EXCEPT !.result = "False"]
    ELSE
      LET m1 == [m EXCEPT !.serial_port = wrapper_close(@)]
          m2 == update_port_list(m1, standard_ports, probe)
      IN IF ~InList(m2.port_name, m2.ports)
         THEN [Signal(m2, "connection_error", Message("not-found", m2.port_name))
                 EXCEPT !.result = "False"]
         ELSE
           LET r == open_with_retries(SerialPortWrapper(m2.port_name), outcomes, 0)
               m3 == [m2 EXCEPT !.serial_port = r.w, !.tried = r.tried]
           IN IF wrapper_is_open(m3.serial_port)
              THEN [Signal([m3 EXCEPT !.connected = TRUE], "port_opened", NoData)
                      EXCEPT !.running = TRUE, !.result = "True"]
              ELSE [Signal(m3, "connection_error", Message("open-failed", ""))
                      EXCEPT !.result = "False"]

close_serial_flip(m) ==
    Signal([m EXCEPT !.running = FALSE,
                     !.serial_port = wrapper_close(@),
                     !.connected = ~m.connected],
           "port_closed", NoData)

\* SerialManager.close_serial
close_serial(m) ==
    Signal([m EXCEPT !.running = FALSE,
                     !.serial_port = wrapper_close(@),
                     !.connected = FALSE],
           "port_closed", NoData)

\* SerialManager.clear_data_buffers, the aggregator part
clear_data_buffers(m) == [m EXCEPT !.data_processor = clear_all_buffers(@)]

(***************************************************************************)
(* State                                                                   *)
(***************************************************************************)
VARIABLES
    parser,     \* the TGAMDataStreamParser of the reader
    segs,       \* the segments of the byte stream on the wire
    pos,        \* number of bytes of the stream already read
    returned,   \* concatenation of the lists parse_stream has returned
    coordinator,\* the EEGDataCoordinator of the main window
    n_raw,      \* raw samples passed to process_eeg_data so far
    only_raw,   \* no call other than a raw sample has reached the coordinator
    call,       \* the coordinator call that has just returned, with its argument
    manager,    \* a SerialManager
    reader,     \* the reader thread of the manager: SerialManager.run
    devices,    \* the serial devices present on the machine
    api,        \* the manager call that has just returned, and the calls made
    accumulator,\* a RawEEGProcessor on its own, with the values fed to it
    aggregator, \* a DataProcessorManager on its own, with the call just made
    band_processor \* a FrequencyBandProcessor on its own, with the call just made

pvars == <<parser, segs, pos, returned>>
cvars == <<coordinator, n_raw, only_raw, call>>
svars == <<manager, reader, devices, api>>
avars == <<accumulator, aggregator, band_processor>>
vars == <<parser, segs, pos, returned, coordinator, n_raw, only_raw, call,
          manager, reader, devices, api, accumulator, aggregator, band_processor>>

\* the reader thread before QThread.start(). pc is the statement of run() the
\* thread is about to execute, data / i / records the local variables of the
\* poll in progress, error the exception caught at line 371, emitted the
\* lifecycle signals the run has emitted, n_reads the polls that read data.
ReaderInit ==
    [pc |-> "not_started", data |-> <<>>, i |-> 0, records |-> <<>>,
     error |-> NoError, emitted |-> <<>>, n_reads |-> 0]

\* the capacity and the values of the accumulator on its own
Capacity == 3
SampleValues == {-3, 0, 2, 5}

\* the buffer_size of the band processor on its own: the window can hold the
\* 64 samples a recompute needs, and the band histories fill up soon after
BandBufferSize == 66

\* RawEEGProcessor(max_buffer_size), DataProcessorManager() and
\* FrequencyBandProcessor(sample_rate, buffer_size) on their own;
\* fed holds the values passed to the accumulator since its construction,
\* n the samples passed to the band processor
AccumulatorVarsInit ==
    /\ band_processor = [f |-> FrequencyBandProcessorInit(DefaultSampleRate, BandBufferSize),
                         op |-> "__init__", n |-> 0]
    /\ accumulator = [proc |-> RawEEGProcessorInit(Capacity), fed |-> <<>>,
                      op |-> "__init__", result |-> EmptyDict]
    /\ aggregator = [processors |-> DataProcessorManagerInit,
                     op |-> [name |-> "__init__", kind |-> ""], n |-> 0,
                     results |-> <<>>]

\* SerialManager() as MainWindow.__init__ builds it
SerialVarsInit ==
    /\ AccumulatorVarsInit
    /\ manager = SerialManagerInit
    /\ reader = ReaderInit
    /\ devices = {}
    /\ api = [op |-> "__init__", prev |-> "", reader_pc |-> "not_started", n |-> 0,
             was_open |-> FALSE,
             connected |-> FALSE, running |-> FALSE, is_open |-> FALSE,
             reader_started |-> FALSE]

\* MainWindow.__init__: EEGDataCoordinator(sample_rate=512, buffer_size=1000)
CoordVarsInit ==
    /\ coordinator = CoordinatorInit(DefaultSampleRate, DefaultBufferSize)
    /\ n_raw = 0
    /\ only_raw = TRUE
    /\ call = [op |-> "__init__", arg |-> EmptyDict]
    /\ SerialVarsInit

Stream == Flatten([i \in 1..Len(segs) |-> segs[i].bytes])
Fed == SubSeq(Stream, 1, pos)

ParserSpecInit ==
    /\ parser = ParserInit
    /\ segs \in SeqsUpTo(Segments, MaxSegs)
    /\ pos = 0
    /\ returned = <<>>
    /\ CoordVarsInit

\* SerialManager.run, one poll: read n available bytes, parse_stream(data),
\* hand every returned record on
ReadAndParse(n) ==
    /\ ~parser.raised
    /\ pos + n <= Len(Stream)
    /\ LET data == SubSeq(Stream, pos + 1, pos + n)
           q == parse_stream(parser, data)
       IN /\ parser' = q
          /\ returned' = returned \o q.parsed_data_list
    /\ pos' = pos + n
    /\ UNCHANGED <<segs, cvars, svars, avars>>

ParserNext == \E n \in 1..MaxChunk : ReadAndParse(n)

ParserSpec == ParserSpecInit /\ [][ParserNext]_vars

(***************************************************************************)
(* Claims about the decoder, checked under ParserSpec                      *)
(***************************************************************************)

AllRead == pos = Len(Stream)
SegEnd(k) == Len(Flatten([i \in 1..k |-> segs[i].bytes]))

\* the checksum byte the wire format prescribes: (~sum(B)) & 0xFF
WireChecksum(B) == 255 - (SumSeq(B) % 256)

IsValidPacket(sg) == sg.framed /\ sg.c = WireChecksum(sg.payload)

\* the records each payload stands for, item by item
RecordsOf(payload) ==
    CASE payload = P_attention -> <<[type |-> "attention", attention |-> 50]>>
      [] payload = P_test -> <<[type |-> "raw_eeg", raw_value |-> 513, eeg_uv |-> 264708]>>
      [] payload = P_unknown -> <<[type |-> "attention", attention |-> 50]>>
      [] OTHER -> <<>>

\* C1: a single frame [0xAA,0xAA,len(B)]+B+[C] fed to a fresh parser is
\* accepted (payload sub-parsing runs) iff C = (~sum(B)) & 0xFF, and for any
\* other C no record is emitted and the parser is back in state 0.
C1_ChecksumAcceptance ==
    (Len(segs) = 1 /\ segs[1].framed /\ AllRead) =>
        LET B == segs[1].payload
            C == segs[1].c
        IN /\ (parser.n_parse_payload = 1) <=> (C = WireChecksum(B))
           /\ (C # WireChecksum(B)) => (returned = <<>> /\ parser.state = 0)

\* C2: once the whole stream is read, the records handed on are exactly the
\* records of the valid packets in it, in order, and nothing else.
C2_Resynchronization ==
    AllRead =>
        returned = Flatten([i \in 1..Len(segs) |->
                              IF IsValidPacket(segs[i]) THEN RecordsOf(segs[i].payload)
                              ELSE <<>>])

\* C3: the declared payload length is in 0..255 and the accumulated payload
\* never holds more bytes than the declared length.
C3_PayloadBound ==
    /\ parser.payload_length \in 0..255
    /\ Len(parser.payload_data) <= parser.payload_length

\* C4: the lists returned over any chunking of the bytes read so far
\* concatenate to the list one parse_stream call on a fresh parser returns for
\* the same bytes, and the parser state is the same as after that one call.
C4_ChunkingInvariance ==
    LET one == parse_stream(ParserInit, Fed)
    IN /\ returned = one.parsed_data_list
       /\ parser.state = one.state
       /\ parser.payload_length = one.payload_length
       /\ parser.payload_data = one.payload_data
       /\ parser.checksum = one.checksum
       /\ Len(parser.parsed_data_list) <= Len(returned)

C4_Witness ==
    /\ Len(segs) = 2 /\ IsValidPacket(segs[1]) /\ IsValidPacket(segs[2])
    /\ segs[1].payload = P_attention /\ segs[2].payload = P_test
    /\ AllRead
    /\ Len(returned) = 2 /\ Len(parser.parsed_data_list) = 1

\* C5 as stated: the test bytes ending in 0x79 are accepted and give one
\* RawSample record with raw value 513.
C5_TestDataAccepted ==
    (Stream = test_data /\ AllRead) =>
        /\ parser.n_parse_payload = 1
        /\ Len(returned) = 1
        /\ returned[1].type = "raw_eeg" /\ returned[1].raw_value = 513

\* C5 amended: the test bytes ending in 0x79 are rejected without a record
\* (the checksum of the payload is 0x7A); the same packet ending in 0x7A is
\* accepted and gives exactly one RawSample record with raw value 513.
C5_TestDataChecksum ==
    /\ (Stream = test_data /\ AllRead) =>
          (parser.n_parse_payload = 0 /\ returned = <<>> /\ parser.state = 0)
    /\ (Stream = Packet(P_test, 122) /\ AllRead) =>
          /\ parser.n_parse_payload = 1
          /\ Len(returned) = 1
          /\ returned[1].type = "raw_eeg" /\ returned[1].raw_value = 513
          /\ parser.state = 0

C5_Witness ==
    /\ Stream = Packet(P_test, 122) /\ AllRead
    /\ Len(returned) = 1 /\ returned[1].raw_value = 513

\* a checksum-valid packet whose sub-parsing aborts: unknown tag, or an item
\* with too few payload bytes left
IsAbortPacket(sg) == IsValidPacket(sg) /\ sg.payload \in {P_test, P_unknown, P_rawcut}

\* C6: sub-parsing of a checksum-valid packet with an unknown tag or a cut
\* item never raises and leaves the parser in state 0, and a valid packet fed
\* next is decoded exactly as a fresh parser decodes it.
C6_AbortRecovers ==
    /\ ~parser.raised
    /\ (Len(segs) >= 1 /\ IsAbortPacket(segs[1]) /\ pos = SegEnd(1)) => parser.state = 0
    /\ (Len(segs) >= 2 /\ IsAbortPacket(segs[1]) /\ IsValidPacket(segs[2]) /\ pos = SegEnd(2)) =>
          LET fresh == parse_stream(ParserInit, segs[2].bytes)
          IN /\ returned = RecordsOf(segs[1].payload) \o fresh.parsed_data_list
             /\ parser.state = fresh.state
             /\ parser.payload_data = fresh.payload_data
             /\ parser.checksum = fresh.checksum

C6_Witness ==
    /\ Len(segs) >= 2 /\ IsAbortPacket(segs[1]) /\ segs[1].payload = P_test
    /\ IsValidPacket(segs[2]) /\ segs[2].payload = P_attention
    /\ pos = SegEnd(2)
    /\ Len(returned) = 2 /\ returned[2].type = "attention"

(***************************************************************************)
(* The coordinator fed by the decoded-record stream                        *)
(***************************************************************************)

\* a raw_eeg record as _parse_payload builds it; the k-th sample of a run
\* carries raw value k, which keeps the samples apart in the buffers
RawSampleRecord(k) == [type |-> "raw_eeg", raw_value |-> k, eeg_uv |-> k * MicrovoltScale]

ScalarKinds == {"attention", "meditation", "signal_quality"}
ScalarValues == {50}

\* an attention / meditation / signal_quality record as _parse_payload builds it
ScalarRecord(kind, v) == Put([type |-> kind], kind, v)

\* a new call: the signals of the previous call have been delivered
BeginCall(c) == [c EXCEPT !.emitted = <<>>, !.raised = FALSE]

\* parsed_data_received -> process_eeg_data, for a raw sample
ProcessRaw ==
    /\ n_raw < MaxSamples
    /\ coordinator' = process_eeg_data(BeginCall(coordinator), RawSampleRecord(n_raw + 1))
    /\ n_raw' = n_raw + 1
    /\ call' = [op |-> "process_eeg_data", arg |-> RawSampleRecord(n_raw + 1)]
    /\ UNCHANGED <<only_raw, pvars, svars, avars>>

\* parsed_data_received -> process_eeg_data, for a scalar record
ProcessScalar ==
    /\ \E kind \in ScalarKinds, v \in ScalarValues :
          /\ coordinator' = process_eeg_data(BeginCall(coordinator), ScalarRecord(kind, v))
          /\ call' = [op |-> "process_eeg_data", arg |-> ScalarRecord(kind, v)]
    /\ only_raw' = FALSE
    /\ UNCHANGED <<n_raw, pvars, svars, avars>>

\* processing_timer.timeout -> process_buffer_data
TimerTick ==
    /\ coordinator' = process_buffer_data(BeginCall(coordinator))
    /\ call' = [op |-> "process_buffer_data", arg |-> EmptyDict]
    /\ only_raw' = FALSE
    /\ UNCHANGED <<n_raw, pvars, svars, avars>>

\* clear_all_data (reset)
ClearAllData ==
    /\ coordinator' = clear_all_data(BeginCall(coordinator))
    /\ call' = [op |-> "clear_all_data", arg |-> EmptyDict]
    /\ only_raw' = FALSE
    /\ UNCHANGED <<n_raw, pvars, svars, avars>>

CoordSpecInit ==
    /\ parser = ParserInit
    /\ segs = <<>>
    /\ pos = 0
    /\ returned = <<>>
    /\ CoordVarsInit

CoordNext == ProcessRaw \/ ProcessScalar \/ TimerTick \/ ClearAllData

CoordSpec == CoordSpecInit /\ [][CoordNext]_vars

(***************************************************************************)
(* Claims about the coordinator, checked under CoordSpec                   *)
(***************************************************************************)

Fbp == coordinator.frequency_band_processor
Recomputes == Fbp.n_process_frequency_bands
Flushes == coordinator.n_process_band_data

\* raw samples fed since construction or since the last clear_all_data: the
\* aggregator's raw buffer is emptied by clear_all_data and takes every sample
SamplesSinceClear == Len(coordinator.data_processor_manager.raw_eeg.eeg_buffer)
\* recomputes since construction or since the last clear_all_data: each one
\* appends one value to every band history, which clear_all_data empties
RecomputesSinceClear == Len(Fbp.filtered_signals["delta"])

Signals(c, signal) == {i \in 1..Len(c.emitted) : c.emitted[i].signal = signal}

\* C7: 65 raw samples fed one by one into a freshly constructed or freshly
\* cleared coordinator (threshold 64) trigger exactly one recompute.
C7_OneRecomputeIn65 ==
    (SamplesSinceClear = 65 /\ coordinator.temp_buffer_size = 64) => RecomputesSinceClear = 1

\* the part of C7 that the code keeps: a freshly constructed coordinator
FreshCoordinator65 ==
    (only_raw /\ n_raw = 65) => Recomputes = 1

\* C8: with processing enabled and no timer tick, after N raw samples the
\* number of recomputes equals the number of batch flushes, floor(N / T).
C8_RecomputePerFlush ==
    only_raw =>
        /\ Flushes = n_raw \div coordinator.temp_buffer_size
        /\ Recomputes = Flushes

\* C9: a timer tick with processing enabled and a non-empty pending batch
\* recomputes the band set, emits it and clears the pending batch.
C9_TimerFlushes ==
    [][(TimerTick /\ coordinator.is_processing /\ coordinator.temp_buffer # <<>>) =>
          /\ coordinator'.frequency_band_processor.n_process_frequency_bands > Recomputes
          /\ Signals(coordinator', "frequency_bands_updated") # {}
          /\ coordinator'.temp_buffer = <<>>]_vars

ScalarCache(c, kind) ==
    CASE kind = "attention" -> c.latest_attention
      [] kind = "meditation" -> c.latest_meditation
      [] kind = "signal_quality" -> c.latest_signal_quality

\* the call that has just returned is process_eeg_data for a scalar record
AfterScalarCall == call.op = "process_eeg_data" /\ call.arg["type"] \in ScalarKinds
\* the call that has just returned is process_eeg_data for a raw sample
AfterRawCall == call.op = "process_eeg_data" /\ call.arg["type"] = "raw_eeg"

Combined == Signals(coordinator, "combined_data_updated")

BandsUpdated == Signals(coordinator, "frequency_bands_updated")

\* the band set of a recompute over the window as it stands: every band value
\* is computed from the whole window, whose newest sample is the latest one
BandSetOfWindow ==
    LET v == [last |-> coordinator.latest_raw_eeg, n |-> Len(Fbp.raw_eeg_buffer)]
    IN PerBand(v, v, v, v, v, v, v, v)

C12_EightBandKeys ==
    /\ DOMAIN get_latest_frequency_band_data(Fbp) = BandNames
    /\ DOMAIN get_latest_frequency_bands(coordinator) = BandNames

(***************************************************************************)
(* The sample window of a coordinator built with a chosen buffer_size      *)
(***************************************************************************)

\* the buffer sizes a coordinator is built with or reconfigured to
BufferSizes == {SmallBufferSize, DefaultBufferSize}

\* the sizes set_buffer_size is called with: the valid ones, 0 and -1
BufferSizeArgs == BufferSizes \cup {0, -1}

\* the sizes set_temp_buffer_size is called with: the default, the smallest
\* valid one, and 0
TempBufferSizeArgs == {DefaultTempBufferSize, MinTempBufferSize, 0}

WindowSpecInit ==
    /\ parser = ParserInit
    /\ segs = <<>>
    /\ pos = 0
    /\ returned = <<>>
    /\ \E B \in BufferSizes : coordinator = CoordinatorInit(DefaultSampleRate, B)
    /\ n_raw = 0
    /\ only_raw = TRUE
    /\ call = [op |-> "__init__", arg |-> EmptyDict]
    /\ SerialVarsInit

\* a configuration call has been made
Configured(c) == [c EXCEPT !.n_config = @ + 1]

\* set_buffer_size(B)
SetBufferSize(B) ==
    /\ coordinator.n_config < MaxConfigCalls
    /\ coordinator' = Configured(set_buffer_size(BeginCall(coordinator), B))
    /\ call' = [op |-> "set_buffer_size", arg |-> [buffer_size |-> B]]
    /\ only_raw' = FALSE
    /\ UNCHANGED <<n_raw, pvars, svars, avars>>

\* set_temp_buffer_size(size)
SetTempBufferSize(size) ==
    /\ coordinator.n_config < MaxConfigCalls
    /\ coordinator' = Configured(set_temp_buffer_size(BeginCall(coordinator), size))
    /\ call' = [op |-> "set_temp_buffer_size", arg |-> [size |-> size]]
    /\ only_raw' = FALSE
    /\ UNCHANGED <<n_raw, pvars, svars, avars>>

\* stop_processing()
StopProcessing ==
    /\ coordinator.n_config < MaxConfigCalls
    /\ coordinator' = Configured(stop_processing(BeginCall(coordinator)))
    /\ call' = [op |-> "stop_processing", arg |-> EmptyDict]
    /\ only_raw' = FALSE
    /\ UNCHANGED <<n_raw, pvars, svars, avars>>

\* start_processing()
StartProcessing ==
    /\ coordinator.n_config < MaxConfigCalls
    /\ coordinator' = Configured(start_processing(BeginCall(coordinator)))
    /\ call' = [op |-> "start_processing", arg |-> EmptyDict]
    /\ only_raw' = FALSE
    /\ UNCHANGED <<n_raw, pvars, svars, avars>>

\* the raw samples one poll of a reader hands over back to back
\* (SerialManager.run, lines 359-361: one signal per record of the chunk)
BurstLen == MinTempBufferSize

\* process_eeg_data for the raw samples first .. last, in order
RECURSIVE process_burst(_, _, _)
process_burst(c, first, last) ==
    IF first > last THEN c
    ELSE LET d == process_eeg_data(BeginCall(c), RawSampleRecord(first))
         IN \* the call has returned before the next one starts
            IF Len(d.emitted) >= 0 THEN process_burst(d, first + 1, last) ELSE d

\* parsed_data_received -> process_eeg_data, for the raw samples of one poll
ProcessBurst ==
    /\ n_raw + BurstLen <= MaxSamples
    /\ coordinator' = process_burst(coordinator, n_raw + 1, n_raw + BurstLen)
    /\ n_raw' = n_raw + BurstLen
    /\ call' = [op |-> "process_eeg_data", arg |-> RawSampleRecord(n_raw + BurstLen)]
    /\ UNCHANGED <<only_raw, pvars, svars, avars>>

WindowNext ==
    \/ ProcessBurst
    \/ \E B \in BufferSizeArgs : SetBufferSize(B)
    \/ \E size \in TempBufferSizeArgs : SetTempBufferSize(size)
    \/ StopProcessing
    \/ StartProcessing
    \/ TimerTick

WindowSpec == WindowSpecInit /\ [][WindowNext]_vars

\* C13: for a coordinator constructed with buffer_size B, or reconfigured to
\* B by set_buffer_size, the sample window of the band processor never holds
\* more than B samples.
C13_WindowBounded ==
    coordinator.buffer_size >= 0 => Len(Fbp.raw_eeg_buffer) <= coordinator.buffer_size

(***************************************************************************)
(* A SerialManager, its callers on the main thread and its reader thread   *)
(***************************************************************************)

\* the byte chunks serial_port.read(in_waiting) returns: any one of the
\* segments the device sends
Chunks == {segs[i].bytes : i \in 1..Len(segs)}

\* a whole packet
WholeSeg == FrameSeg(P_attention, TRUE)

\* a packet cut after its first payload byte
CutSeg == [framed |-> FALSE, payload |-> <<>>, c |-> 0, bytes |-> SubSeq(WholeSeg.bytes, 1, 4)]

\* what an enumerator can return for the devices present
Enumerations == {<<>>, PortList(devices)}

\* what the probe over COM1..COM20 can do for the devices present
Probes == {Probe(FALSE, PortList(devices)), Probe(TRUE, <<>>)}

\* what the serial.Serial(...) calls of one open_serial can do: each one
\* succeeds or fails, the failures of one call having the same cause
OpenOutcomes == UNION {[1..MaxRetries -> {NoError, e}] : e \in Failures}

\* a new call on the main thread: the signals of the previous one are delivered
BeginApi(m) ==
    [m EXCEPT !.emitted = <<>>, !.result = "None", !.tried = <<>>,
              !.enumerated = NotEnumerated]

\* api after a call: the call, the one before it, where the reader thread stood
\* when it was made, whether the transport was open when it was made, and
\* what the call left behind: the flags, the transport, and whether a reader
\* thread runs
Called(op, m, r) ==
    [op |-> op, prev |-> api.op, reader_pc |-> reader.pc, n |-> api.n + 1,
     was_open |-> wrapper_is_open(manager.serial_port),
     connected |-> m.connected, running |-> m.running,
     is_open |-> wrapper_is_open(m.serial_port),
     reader_started |-> r.pc \notin {"not_started", "finished"}]

\* QThread.start(): starts run() unless the thread is running
thread_start(r) ==
    IF r.pc \in {"not_started", "finished"}
    THEN [ReaderInit EXCEPT !.pc = "run_entry", !.n_reads = r.n_reads]
    ELSE r

SetPort(port_name) ==
    /\ manager.port_name # port_name
    /\ manager' = set_port(manager, port_name)
    /\ UNCHANGED <<reader, devices, api, parser, segs, pos, returned, cvars, avars>>

UpdatePortList ==
    /\ api.n < MaxCalls
    /\ \E standard_ports \in Enumerations, probe \in Probes :
          manager' = [update_port_list(BeginApi(manager), standard_ports, probe)
                         EXCEPT !.result = "ports"]
    /\ api' = Called("update_port_list", manager', reader)
    /\ UNCHANGED <<reader, devices, parser, segs, pos, returned, cvars, avars>>

OpenSerial ==
    /\ api.n < MaxCalls
    /\ \E standard_ports \in Enumerations, probe \in Probes, outcomes \in OpenOutcomes :
          manager' = open_serial(BeginApi(manager), standard_ports, probe, outcomes)
    /\ reader' = IF manager'.result = "True" THEN thread_start(reader) ELSE reader
    /\ api' = Called("open_serial", manager', reader')
    /\ UNCHANGED <<devices, parser, segs, pos, returned, cvars, avars>>

CloseSerial ==
    /\ api.n < MaxCalls
    /\ manager' = close_serial(BeginApi(manager))
    /\ api' = Called("close_serial", manager', reader)
    /\ UNCHANGED <<reader, devices, parser, segs, pos, returned, cvars, avars>>

\* SerialManager.clear_data_buffers
ClearDataBuffers ==
    /\ api.n < MaxCalls
    /\ manager' = clear_data_buffers(BeginApi(manager))
    /\ parser' = clear_buffer(parser)
    /\ api' = Called("clear_data_buffers", manager', reader)
    /\ UNCHANGED <<reader, devices, segs, pos, returned, cvars, avars>>

\* SerialManager.get_processed_data: reads every accumulator
GetProcessedData ==
    /\ api.n < MaxCalls
    /\ manager' = [BeginApi(manager) EXCEPT !.result = "processed_data"]
    /\ api' = Called("get_processed_data", manager', reader)
    /\ UNCHANGED <<reader, devices, parser, segs, pos, returned, cvars, avars>>

\* run(), lines 342-343
RunEntry ==
    /\ reader.pc = "run_entry"
    /\ reader' = [reader EXCEPT !.pc = IF wrapper_is_open(manager.serial_port)
                                       THEN "loop_test" ELSE "finished"]
    /\ UNCHANGED <<manager, devices, api, parser, segs, pos, returned, cvars, avars>>

\* the condition of the while loop, line 347
loop_continues_always(m) == TRUE

loop_continues(m) == m.running /\ wrapper_is_open(m.serial_port)

LoopTest ==
    /\ reader.pc = "loop_test"
    /\ reader' = [reader EXCEPT !.pc = IF loop_continues(manager) THEN "in_waiting" ELSE "finally"]
    /\ UNCHANGED <<manager, devices, api, parser, segs, pos, returned, cvars, avars>>

\* line 349: in_waiting() is 0 on a closed wrapper; on an open one it gives
\* the bytes waiting or raises
InWaiting ==
    /\ reader.pc = "in_waiting"
    /\ \/ /\ ~wrapper_is_open(manager.serial_port)
          /\ reader' = [reader EXCEPT !.pc = "sleep"]
       \/ /\ wrapper_is_open(manager.serial_port)
          /\ \/ reader' = [reader EXCEPT !.pc = "sleep"]
             \/ /\ reader.n_reads < MaxReads
                /\ reader' = [reader EXCEPT !.pc = "read"]
             \/ \E e \in Failures : reader' = [reader EXCEPT !.pc = "except", !.error = e]
    /\ UNCHANGED <<manager, devices, api, parser, segs, pos, returned, cvars, avars>>

\* lines 350-356: read() is b'' on a closed wrapper; on an open one it gives
\* the bytes or raises. parse_stream starts by emptying parsed_data_list.
Read ==
    /\ reader.pc = "read"
    /\ \/ /\ ~wrapper_is_open(manager.serial_port)
          /\ reader' = [reader EXCEPT !.pc = "sleep"]
          /\ UNCHANGED parser
       \/ /\ wrapper_is_open(manager.serial_port)
          /\ \/ \E data \in Chunks :
                  /\ reader' = [reader EXCEPT !.pc = "parse", !.data = data, !.i = 1,
                                              !.n_reads = @ + 1]
                  /\ parser' = [parser EXCEPT !.parsed_data_list = <<>>]
             \/ /\ \E e \in Failures : reader' = [reader EXCEPT !.pc = "except", !.error = e]
                /\ UNCHANGED parser
    /\ UNCHANGED <<manager, devices, api, segs, pos, returned, cvars, avars>>

\* parse_stream, lines 50-53: one byte of the loop; after the last byte the
\* list is returned
ParseByte ==
    /\ reader.pc = "parse"
    /\ parser' = parse_byte(parser, reader.data[reader.i])
    /\ reader' = IF reader.i < Len(reader.data)
                 THEN [reader EXCEPT !.i = @ + 1]
                 ELSE [reader EXCEPT !.pc = IF parser'.parsed_data_list = <<>>
                                            THEN "sleep" ELSE "process",
                                     !.records = parser'.parsed_data_list,
                                     !.data = <<>>, !.i = 0]
    /\ UNCHANGED <<manager, devices, api, segs, pos, returned, cvars, avars>>

\* run(), lines 359-364: one record of the loop
ProcessRecord ==
    /\ reader.pc = "process"
    /\ manager' = [manager EXCEPT !.data_processor =
                       dpm_process_data(@, Head(reader.records)).dpm]
    /\ reader' = [reader EXCEPT !.records = Tail(@),
                                !.pc = IF Tail(reader.records) = <<>> THEN "sleep" ELSE "process"]
    /\ UNCHANGED <<devices, api, parser, segs, pos, returned, cvars, avars>>

\* line 369
Sleep ==
    /\ reader.pc = "sleep"
    /\ reader' = [reader EXCEPT !.pc = "loop_test"]
    /\ UNCHANGED <<manager, devices, api, parser, segs, pos, returned, cvars, avars>>

\* lines 371-373
Except ==
    /\ reader.pc = "except"
    /\ reader' = [reader EXCEPT !.pc = "finally",
                    !.emitted = Append(@, [signal |-> "connection_error",
                                           data |-> Message("read-error", reader.error.text)])]
    /\ UNCHANGED <<manager, devices, api, parser, segs, pos, returned, cvars, avars>>

run_finally_keep_connected(m) == [m EXCEPT !.serial_port = wrapper_close(@)]

\* run(), lines 375-378
run_finally(m) == [m EXCEPT !.serial_port = wrapper_close(@), !.connected = FALSE]

\* lines 375-379
Finally ==
    /\ reader.pc = "finally"
    /\ manager' = [run_finally(manager) EXCEPT !.lifecycle = lifecycle_after(@, "port_closed")]
    /\ reader' = [reader EXCEPT !.pc = "finished",
                    !.emitted = Append(@, [signal |-> "port_closed", data |-> NoData])]
    /\ UNCHANGED <<devices, api, parser, segs, pos, returned, cvars, avars>>

ReaderStep ==
    \/ RunEntry \/ LoopTest \/ InWaiting \/ Read \/ ParseByte
    \/ ProcessRecord \/ Sleep \/ Except \/ Finally

\* a SerialManager after construction, with the segments the device sends
SerialInit(sent) ==
    /\ parser = ParserInit
    /\ segs = sent
    /\ pos = 0
    /\ returned = <<>>
    /\ coordinator = CoordinatorInit(DefaultSampleRate, DefaultBufferSize)
    /\ n_raw = 0
    /\ only_raw = TRUE
    /\ call = [op |-> "__init__", arg |-> EmptyDict]
    /\ AccumulatorVarsInit
    /\ manager = SerialManagerInit
    /\ reader = ReaderInit
    /\ devices \in {{}, {"COM3"}}
    /\ api = [op |-> "__init__", prev |-> "", reader_pc |-> "not_started", n |-> 0,
             was_open |-> FALSE,
             connected |-> FALSE, running |-> FALSE, is_open |-> FALSE,
             reader_started |-> FALSE]

\* the device sends whole packets
SerialSpecInit == SerialInit(<<WholeSeg>>)

\* the device sends whole packets and packets cut short
CutSerialSpecInit == SerialInit(<<WholeSeg, CutSeg>>)

SerialNext ==
    \/ \E port_name \in PortNames : SetPort(port_name)
    \/ UpdatePortList
    \/ OpenSerial
    \/ CloseSerial
    \/ ClearDataBuffers
    \/ GetProcessedData
    \/ ReaderStep

SerialSpec == SerialSpecInit /\ [][SerialNext]_vars

\* the reader thread takes its steps (fair scheduling of the thread)
FairSerialSpec == SerialSpec /\ WF_vars(ReaderStep)

CutSerialSpec == CutSerialSpecInit /\ [][SerialNext]_vars

(***************************************************************************)
(* Claims about the SerialManager, checked under SerialSpec                *)
(***************************************************************************)

\* the reader is inside parse_stream or inside the loop over its records
InsideReaderStep(pc) == pc \in {"parse", "process"}

\* C14: the decoder state and the aggregator of a manager are never accessed
\* from another thread while the reader works on them: no call of
\* clear_data_buffers or get_processed_data happens between two steps of the
\* reader's parse_stream / process_data.
C14_ReaderExclusive ==
    api.op \in {"clear_data_buffers", "get_processed_data"} => ~InsideReaderStep(api.reader_pc)

ReaderFailed == reader.pc = "finished" /\ reader.error # NoError

\* C15: when in_waiting() or read() raises in run(), the reader loop ends:
\* the transport is closed, connected is False, the run has emitted a
\* connection_error and then a port_closed signal, and run() returns.
C15_ReadErrorEndsReader ==
    /\ reader.error # NoError => reader.pc \in {"except", "finally", "finished"}
    /\ ReaderFailed =>
          /\ ~wrapper_is_open(manager.serial_port)
          /\ ~manager.connected
          /\ Len(reader.emitted) = 2
          /\ reader.emitted[1].signal = "connection_error"
          /\ reader.emitted[1].data = Message("read-error", reader.error.text)
          /\ reader.emitted[2].signal = "port_closed"

\* a read raised on an open connection and the run has ended
C15_Witness ==
    /\ ReaderFailed
    /\ reader.n_reads = 0
    /\ api.op = "open_serial" /\ manager.result = "True"
    /\ manager.running

ReaderAlive == reader.pc \notin {"not_started", "finished"}

C17_CloseIdempotent ==
    api.op = "close_serial" =>
        /\ ~manager.running
        /\ ~manager.connected
        /\ ~wrapper_is_open(manager.serial_port)
        /\ [close_serial(BeginApi(manager)) EXCEPT !.lifecycle = manager.lifecycle] = manager

\* close_serial called twice in succession on a manager that has a transport
C17_Witness ==
    /\ api.op = "close_serial" /\ api.prev = "close_serial"
    /\ manager.serial_port.exists
    /\ manager.emitted = <<[signal |-> "port_closed", data |-> NoData]>>

LastSignal(m) == m.emitted[Len(m.emitted)]

\* C18: update_port_list returns [] when no device is present, and
\* open_serial for a port that is not in the enumeration it has just made
\* fails with a not-found connection error, returns False, attempts no
\* transport open and leaves connected False.
C18_NotFoundOpen ==
    /\ [][(UpdatePortList /\ devices = {}) => manager'.ports = <<>>]_vars
    /\ [][(OpenSerial /\ manager.port_name # ""
                      /\ ~InList(manager.port_name, manager'.ports)) =>
            /\ manager'.result = "False"
            /\ LastSignal(manager').signal = "connection_error"
            /\ LastSignal(manager').data = Message("not-found", manager.port_name)
            /\ manager'.tried = <<>>
            /\ ~manager'.connected]_vars

C20_ErrorsClassified ==
    /\ (api.op = "open_serial" /\ manager.result = "False" /\ manager.tried # <<>>) =>
          /\ LastSignal(manager).signal = "connection_error"
          /\ LastSignal(manager).data =
                 get_friendly_error_message(manager.tried[Len(manager.tried)])
    /\ (reader.error # NoError /\ reader.emitted # <<>>) =>
          /\ reader.emitted[1].signal = "connection_error"
          /\ reader.emitted[1].data = get_friendly_error_message(reader.error)

\* C21: update_port_list asks the standard enumerator first and runs the
\* probe over COM1..COM20 only when the standard one found nothing (or
\* failed); an exception of an enumerator is contained: the call returns the
\* ports of the first enumerator that found some, and [] when none did.
C21_FallbackEnumeration ==
    api.op = "update_port_list" =>
        /\ manager.result = "ports"
        /\ manager.enumerated.probed <=> (manager.enumerated.standard = <<>>)
        /\ manager.enumerated.standard # <<>> => manager.ports = manager.enumerated.standard
        /\ manager.enumerated.standard = <<>> => manager.ports \in {<<>>, PortList(devices)}
        /\ devices = {} => manager.ports = <<>>
        /\ LastSignal(manager).signal = "port_list_updated"

\* the standard enumerator found nothing and the probe found the device
C21_Witness ==
    /\ api.op = "update_port_list"
    /\ manager.enumerated = [standard |-> <<>>, probed |-> TRUE]
    /\ manager.ports = <<"COM3">>

(***************************************************************************)
(* Claims about reconfiguration, checked under WindowSpec                  *)
(***************************************************************************)

\* C22: a configuration call with an invalid value (set_buffer_size with a
\* non-positive size, set_temp_buffer_size with an invalid batch size) is
\* rejected and leaves buffer_size, temp_buffer_size and the band processor
\* with its window unchanged.
C22_InvalidConfigRejected ==
    [][((\E B \in {0, -1} : SetBufferSize(B)) \/ SetTempBufferSize(0)) =>
          /\ coordinator'.buffer_size = coordinator.buffer_size
          /\ coordinator'.temp_buffer_size = coordinator.temp_buffer_size
          /\ coordinator'.frequency_band_processor = coordinator.frequency_band_processor]_vars

\* the last n entries of a sequence
LastN(q, n) == SubSeq(q, Len(q) - n + 1, Len(q))

\* C23: set_buffer_size to a new capacity C changes the capacity of the
\* sample window to C and keeps the most recent min(C, previous length)
\* samples in the window.
C23_ResizeKeepsRecent ==
    [][\A C \in BufferSizes :
          (SetBufferSize(C) /\ C # coordinator.buffer_size) =>
             LET old == coordinator.frequency_band_processor.raw_eeg_buffer
                 kept == IF C < Len(old) THEN C ELSE Len(old)
             IN /\ coordinator'.frequency_band_processor.buffer_size = C
                /\ coordinator'.frequency_band_processor.raw_eeg_buffer = LastN(old, kept)]_vars

\* what stop_processing and start_processing must leave alone: the sample
\* window and band histories, the pending batch and the cached scalars
Buffers(c) ==
    <<c.frequency_band_processor, c.temp_buffer, c.temp_buffer_size,
      c.raw_eeg_buffer, c.eeg_uv_buffer, c.data_processor_manager,
      c.latest_raw_eeg, c.latest_frequency_bands, c.latest_attention,
      c.latest_meditation, c.latest_signal_quality>>

\* C24: stop_processing and start_processing change is_processing and no
\* buffer (sample window, band histories, pending batch, cached scalars), and
\* while processing is stopped neither incoming records nor timer ticks make
\* the band processor recompute.
C24_StopStartOnlyToggle ==
    [][/\ call'.op \in {"stop_processing", "start_processing"} =>
             /\ Buffers(coordinator') = Buffers(coordinator)
             /\ coordinator'.is_processing = (call'.op = "start_processing")
       /\ (~coordinator.is_processing
               /\ call'.op \in {"process_eeg_data", "process_buffer_data"}) =>
             /\ coordinator'.frequency_band_processor = coordinator.frequency_band_processor
             /\ coordinator'.latest_frequency_bands = coordinator.latest_frequency_bands
             /\ coordinator'.n_process_band_data = coordinator.n_process_band_data
             /\ Signals(coordinator', "frequency_bands_updated") = {}]_vars

\* processing is stopped, a record has just come in and the pending batch is
\* full: a recompute would have happened had processing been on
C24_Witness ==
    /\ ~coordinator.is_processing
    /\ call.op = "process_eeg_data"
    /\ Len(coordinator.temp_buffer) >= coordinator.temp_buffer_size
    /\ Len(Fbp.raw_eeg_buffer) > 0

(***************************************************************************)
(* Claims about clearing, checked under CoordSpec                          *)
(***************************************************************************)

\* C25: after clear_all_data, from any reachable state, the sample window
\* and the band histories of the band processor are empty, every accumulator
\* of the aggregator is in its initial state, and the cached scalars (latest
\* raw value, attention, meditation, signal quality, latest band set) have
\* their initial values.
C25_ResetClears ==
    call.op = "clear_all_data" =>
        /\ Fbp.raw_eeg_buffer = <<>>
        /\ Fbp.filtered_signals = EmptyBands
        /\ coordinator.data_processor_manager = DataProcessorManagerInit
        /\ coordinator.latest_raw_eeg = 0
        /\ coordinator.latest_frequency_bands = EmptyDict
        /\ coordinator.latest_attention = 0
        /\ coordinator.latest_meditation = 0
        /\ coordinator.latest_signal_quality = 0

\* a reset of a coordinator that has taken samples and recomputed the bands
C25_Witness ==
    /\ call.op = "clear_all_data"
    /\ Len(coordinator.raw_eeg_buffer) >= DefaultTempBufferSize
    /\ Recomputes > 0

\* The decoder and the coordinator share no state: the decoder runs over
\* every stream, and the coordinator runs where no bytes arrive.
ClearSpecInit == ParserSpecInit

ClearNext == ParserNext \/ (segs = <<>> /\ CoordNext)

ClearSpec == ClearSpecInit /\ [][ClearNext]_vars

Dpm == coordinator.data_processor_manager

\* C26: clearing twice in succession gives the same state as clearing once,
\* for clear_buffer of every accumulator, for clear_all_buffers of the
\* aggregator, for clear_buffers of the band processor and for clear_buffer
\* of the decoder, from every reachable state.
C26_ClearIdempotent ==
    /\ raw_eeg_clear_buffer(raw_eeg_clear_buffer(Dpm.raw_eeg))
          = raw_eeg_clear_buffer(Dpm.raw_eeg)
    /\ signal_quality_clear_buffer(signal_quality_clear_buffer(Dpm.signal_quality))
          = signal_quality_clear_buffer(Dpm.signal_quality)
    /\ \A k \in {"attention", "meditation"} :
          attention_meditation_clear_buffer(attention_meditation_clear_buffer(Dpm[k]))
            = attention_meditation_clear_buffer(Dpm[k])
    /\ eeg_power_clear_buffer(eeg_power_clear_buffer(Dpm.eeg_power))
          = eeg_power_clear_buffer(Dpm.eeg_power)
    /\ clear_all_buffers(clear_all_buffers(Dpm)) = clear_all_buffers(Dpm)
    /\ fbp_clear_buffers(fbp_clear_buffers(Fbp)) = fbp_clear_buffers(Fbp)
    /\ clear_buffer(clear_buffer(parser)) = clear_buffer(parser)

\* a state where every clear of the coordinator side has something to clear
C26_Witness ==
    /\ Len(Dpm.raw_eeg.eeg_buffer) >= 2
    /\ Dpm.attention.latest_attention # 0
    /\ Dpm.signal_quality.latest_signal_quality # 0
    /\ RecomputesSinceClear > 0
    /\ clear_all_buffers(Dpm) # Dpm
    /\ fbp_clear_buffers(Fbp) # Fbp

(***************************************************************************)
(* The RawEEGProcessor on its own                                          *)
(***************************************************************************)
MaxFed == 5

\* process_data({'type': 'raw_eeg', 'eeg_uv': v})
AccProcessData(v) ==
    /\ Len(accumulator.fed) < MaxFed
    /\ LET a == raw_eeg_process_data(accumulator.proc, [type |-> "raw_eeg", eeg_uv |-> v])
       IN accumulator' = [proc |-> a.proc, fed |-> Append(accumulator.fed, v),
                          op |-> "process_data", result |-> a.result]
    /\ UNCHANGED <<aggregator, band_processor, pvars, cvars, svars>>

\* process_data of a record without 'eeg_uv'
AccProcessOther ==
    /\ LET a == raw_eeg_process_data(accumulator.proc, [type |-> "attention", attention |-> 50])
       IN accumulator' = [accumulator EXCEPT !.proc = a.proc, !.op = "process_data",
                                             !.result = a.result]
    /\ UNCHANGED <<aggregator, band_processor, pvars, cvars, svars>>

\* get_processed_data()
AccGetProcessedData ==
    /\ accumulator' = [accumulator EXCEPT
                         !.op = "get_processed_data",
                         !.result = raw_eeg_get_processed_data(accumulator.proc)]
    /\ UNCHANGED <<aggregator, band_processor, pvars, cvars, svars>>

AccumulatorSpecInit == CoordSpecInit

AccumulatorNext ==
    \/ \E v \in SampleValues : AccProcessData(v)
    \/ AccProcessOther
    \/ AccGetProcessedData

AccumulatorSpec == AccumulatorSpecInit /\ [][AccumulatorNext]_vars

\* the values an accumulator of capacity K retains of those fed to it
Retained == LET n == Len(accumulator.fed)
            IN LastN(accumulator.fed, IF n < Capacity THEN n ELSE Capacity)

Elements(q) == {q[i] : i \in 1..Len(q)}

\* C27: after feeding v1..vn to a RawEEGProcessor of capacity K,
\* get_processed_data returns the statistics of exactly the last min(n, K)
\* values: latest is vn, min and max are the least and greatest retained
\* value, mean is their sum over their number, std squared is their mean
\* square minus the square of their mean; with no values the result is empty.
C27_StatisticsOfRetained ==
    accumulator.op = "get_processed_data" =>
        LET r == accumulator.result
            n == Len(Retained)
            S == SumSeq(Retained)
            Q == SumSeq([i \in 1..n |-> Retained[i] * Retained[i]])
        IN IF accumulator.fed = <<>> THEN r = EmptyDict
           ELSE /\ DOMAIN r = {"mean", "std", "max", "min", "latest"}
                /\ accumulator.proc.eeg_buffer = Retained
                /\ r.latest = accumulator.fed[Len(accumulator.fed)]
                /\ r.min \in Elements(Retained) /\ \A v \in Elements(Retained) : r.min <= v
                /\ r.max \in Elements(Retained) /\ \A v \in Elements(Retained) : r.max >= v
                /\ r.mean[1] * n = S * r.mean[2]
                /\ r.std[1] * (n * n) = (n * Q - S * S) * r.std[2]

\* statistics asked for after more than K values were fed, the greatest of
\* them no longer retained
C27_Witness ==
    /\ accumulator.op = "get_processed_data"
    /\ Len(accumulator.fed) > Capacity
    /\ np_max(accumulator.fed) > accumulator.result.max
    /\ accumulator.result.min < accumulator.result.max

(***************************************************************************)
(* The DataProcessorManager on its own                                     *)
(***************************************************************************)
MaxAggregatorCalls == 4

\* processors[kind].clear_buffer()
clear_buffer_of(m, kind) ==
    CASE kind = "raw_eeg" -> [m EXCEPT !.raw_eeg = raw_eeg_clear_buffer(@)]
      [] kind = "signal_quality" -> [m EXCEPT !.signal_quality = signal_quality_clear_buffer(@)]
      [] kind \in {"attention", "meditation"} ->
           [m EXCEPT ![kind] = attention_meditation_clear_buffer(@)]
      [] kind = "eeg_power" -> [m EXCEPT !.eeg_power = eeg_power_clear_buffer(@)]

\* an eeg_power record as _parse_payload builds it
PowerRecord == [type |-> "eeg_power", eeg_power |-> <<1, 2, 3, 4, 5, 6, 7, 8>>]

\* signal-quality values on both sides of every threshold
QualityValues == {0, 9, 10, 19, 20, 39, 40, 69, 70, 200, 255}

\* records of every registered kind, of a kind no accumulator is registered
\* for, without a kind, and of a registered kind without its value
AggregatorRecords ==
    {RawSampleRecord(1), PowerRecord,
     [type |-> "blink", blink_strength |-> 50],
     [attention |-> 50, meditation |-> 50],
     [type |-> "attention", attention |-> 50, meditation |-> 50],
     [type |-> "signal_quality"]}
      \cup {ScalarRecord(kind, 50) : kind \in ScalarKinds}
      \cup {ScalarRecord("signal_quality", q) : q \in QualityValues}

AggregatorCall(processors, name, kind, results) ==
    /\ aggregator.n < MaxAggregatorCalls
    /\ aggregator' = [processors |-> processors, op |-> [name |-> name, kind |-> kind],
                      n |-> aggregator.n + 1, results |-> results]
    /\ UNCHANGED <<accumulator, band_processor, pvars, cvars, svars>>

\* process_data(data)
AggProcessData(data) ==
    AggregatorCall(dpm_process_data(aggregator.processors, data).dpm, "process_data",
                   IF Has(data, "type") THEN data["type"] ELSE "",
                   dpm_process_data(aggregator.processors, data).results)

\* processors[kind].clear_buffer()
AggClearBuffer(kind) ==
    AggregatorCall(clear_buffer_of(aggregator.processors, kind), "clear_buffer", kind, <<>>)

\* clear_all_buffers()
AggClearAllBuffers ==
    AggregatorCall(clear_all_buffers(aggregator.processors), "clear_all_buffers", "", <<>>)

AggregatorSpecInit == CoordSpecInit

AggregatorNext ==
    \/ \E data \in AggregatorRecords : AggProcessData(data)
    \/ \E kind \in ProcessorKinds : AggClearBuffer(kind)
    \/ AggClearAllBuffers

AggregatorSpec == AggregatorSpecInit /\ [][AggregatorNext]_vars

\* C28: clear_buffer of one accumulator leaves every other accumulator
\* unchanged; process_data changes no accumulator but the one registered for
\* the kind of the record, and none for a record of an unknown kind or without
\* a kind; clear_all_buffers puts every accumulator in its initial state.
C28_IndependentAccumulators ==
    [][LET op == aggregator'.op
       IN /\ op.name \in {"clear_buffer", "process_data"} =>
                \A j \in ProcessorKinds \ {op.kind} :
                   aggregator'.processors[j] = aggregator.processors[j]
          /\ op.name = "clear_buffer" =>
                aggregator'.processors[op.kind] = DataProcessorManagerInit[op.kind]
          /\ op.name = "clear_all_buffers" =>
                aggregator'.processors = DataProcessorManagerInit]_vars

\* a meditation record has been dispatched while the attention accumulator
\* holds a value
C28_Witness ==
    /\ aggregator.op = [name |-> "process_data", kind |-> "meditation"]
    /\ aggregator.processors.meditation.latest_meditation = 50
    /\ aggregator.processors.attention.latest_attention = 50
    /\ aggregator.processors.attention.latest_meditation = 0

(***************************************************************************)
(* The decoder fed one accepted packet holding a raw or a power item       *)
(***************************************************************************)

\* the bytes after a RAW_VALUE tag
HighBytes == {0, 1, 127, 128, 255}
LowBytes == {0, 128, 255}

\* a raw item, alone, followed by an attention item, and cut after one byte
RawPayloads ==
    {<<RAW_VALUE, hi, lo>> : hi \in HighBytes, lo \in LowBytes}
      \cup {<<RAW_VALUE, hi, lo, ATTENTION, 50>> : hi \in HighBytes, lo \in LowBytes}
      \cup {<<RAW_VALUE, hi>> : hi \in HighBytes}

\* the 24 value bytes after the length byte of an EEG_POWER item
PowerValues ==
    {[k \in 1..24 |-> k], [k \in 1..24 |-> 255], [k \in 1..24 |-> 0],
     [k \in 1..24 |-> IF k % 3 = 1 THEN 255 ELSE k]}

\* the length byte of an EEG_POWER item
PowerLengths == {24, 0, 3, 23, 25, 255}

\* a power item with each length byte, alone, followed by an attention item,
\* and with its last value byte missing
PowerPayloads ==
    {<<EEG_POWER, len>> \o v : len \in PowerLengths, v \in PowerValues}
      \cup {<<EEG_POWER, len>> \o v \o <<ATTENTION, 50>> : len \in PowerLengths, v \in PowerValues}
      \cup {<<EEG_POWER, 24>> \o SubSeq(v, 1, 23) : v \in PowerValues}

\* the value byte of a one-byte item
ScalarBytes == {0, 9, 100, 101, 200, 201, 255}

\* a signal-quality, attention or meditation item, alone
ScalarPayloads ==
    {<<tag, v>> : tag \in {POOR_SIGNAL, ATTENTION, MEDITATION}, v \in ScalarBytes}

ItemSpecInit ==
    /\ parser = ParserInit
    /\ \E payload \in RawPayloads \cup PowerPayloads \cup ScalarPayloads :
          segs = <<FrameSeg(payload, TRUE)>>
    /\ pos = 0
    /\ returned = <<>>
    /\ CoordVarsInit

ItemSpec == ItemSpecInit /\ [][ParserNext]_vars

\* the payload of the packet on the wire
Payload == segs[1].payload

RawValues == {returned[i].raw_value : i \in {j \in 1..Len(returned) : returned[j].type = "raw_eeg"}}

\* C29: the raw value emitted for the bytes (hi, lo) after a RAW_VALUE tag of
\* an accepted packet is the signed 16-bit two's-complement reading of the
\* big-endian pair: hi * 256 + lo if that is at most 32767, and 65536 less
\* otherwise; every emitted raw value lies in -32768 .. 32767.
C29_SignedRawValue ==
    /\ RawValues \subseteq -32768..32767
    /\ (AllRead /\ Payload[1] = RAW_VALUE /\ Len(Payload) >= 3) =>
          LET u == Payload[2] * 256 + Payload[3]
          IN /\ Len(returned) >= 1
             /\ returned[1].type = "raw_eeg"
             /\ returned[1].raw_value = IF u <= 32767 THEN u ELSE u - 65536
             /\ RawValues = {returned[1].raw_value}

\* a raw item whose pair reads above 32767 has been decoded
C29_Witness ==
    /\ AllRead
    /\ Payload[1] = RAW_VALUE /\ Len(Payload) >= 3
    /\ Payload[2] >= 128
    /\ RawValues # {}
    /\ \A v \in RawValues : v < 0

PowerRecords == {i \in 1..Len(returned) : returned[i].type = "eeg_power"}

\* the unsigned big-endian reading of the k-th group of three value bytes
BigEndian3(k) ==
    (Payload[3 * k] * 256 + Payload[3 * k + 1]) * 256 + Payload[3 * k + 2]

\* C30: an eeg_power record is emitted only when the byte after the EEG_POWER
\* tag is 24 and 24 value bytes follow inside the payload; the record then
\* holds exactly 8 values, the k-th the unsigned big-endian reading of the
\* k-th group of three value bytes (0 .. 16777215), in band order; for any
\* other length byte no eeg_power record is emitted.
C30_PowerBands ==
    /\ PowerRecords # {} =>
          Payload[1] = EEG_POWER /\ Payload[2] = 24 /\ Len(Payload) >= 26
    /\ (AllRead /\ Payload[1] = EEG_POWER) =>
          IF Payload[2] = 24 /\ Len(Payload) >= 26
          THEN /\ PowerRecords = {1}
               /\ DOMAIN returned[1].eeg_power = 1..8
               /\ \A k \in 1..8 :
                     /\ returned[1].eeg_power[k] = BigEndian3(k)
                     /\ returned[1].eeg_power[k] \in 0..16777215
          ELSE PowerRecords = {}

\* a power item with length byte 24 has been decoded to values that differ
\* from band to band and from their byte-reversed reading
C30_Witness ==
    /\ AllRead
    /\ Payload[1] = EEG_POWER
    /\ PowerRecords = {1}
    /\ returned[1].eeg_power[1] # returned[1].eeg_power[2]
    /\ returned[1].eeg_power[1] = 66051
    /\ Len(returned) = 2

\* C31: every record the decoder emits for an accepted packet has its value
\* in the range of the data model: attention and meditation in 0 .. 100,
\* signal quality in 0 .. 200.
C31_ScalarRanges ==
    \A i \in 1..Len(returned) :
       /\ returned[i].type = "attention" => returned[i].attention \in 0..100
       /\ returned[i].type = "meditation" => returned[i].meditation \in 0..100
       /\ returned[i].type = "signal_quality" => returned[i].signal_quality \in 0..200

\* the result of a process_data call for a signal_quality record
QualityResults ==
    IF aggregator.op = [name |-> "process_data", kind |-> "signal_quality"]
    THEN {aggregator.results[i] : i \in 1..Len(aggregator.results)} ELSE {}

\* C32: the level derived for a signal-quality value q is excellent for
\* q < 10, good for 10 <= q < 20, fair for 20 <= q < 40, poor for
\* 40 <= q < 70, and very poor otherwise.
C32_QualityLevels ==
    \A r \in QualityResults :
       LET q == r.signal_quality
       IN /\ q < 10 => r.quality_level = "excellent"
          /\ (10 <= q /\ q < 20) => r.quality_level = "good"
          /\ (20 <= q /\ q < 40) => r.quality_level = "fair"
          /\ (40 <= q /\ q < 70) => r.quality_level = "poor"
          /\ q >= 70 => r.quality_level = "very poor"
          /\ aggregator.processors.signal_quality.latest_signal_quality = q

\* a value on a threshold has been given its level
C32_Witness ==
    \E r \in QualityResults : r.signal_quality = 70 /\ r.quality_level = "very poor"

\* C33: once the length byte L has been consumed, the decoder is back in
\* sync-search after exactly L + 1 further bytes: while it is outside
\* sync-search with a length, it has consumed at most L payload bytes, the
\* next byte after the L-th being the checksum byte that ends the packet.
C33_DecoderReturns ==
    parser.state \in {3, 4} => Len(parser.payload_data) <= parser.payload_length

\* C34: in every state after process_eeg_data has returned, the pending batch
\* holds fewer than temp_buffer_size samples, whatever the interleaving of
\* records, stop_processing, start_processing, timer ticks and
\* set_temp_buffer_size.
C34_PendingBatchBounded ==
    call.op = "process_eeg_data" =>
        Len(coordinator.temp_buffer) < coordinator.temp_buffer_size

\* C35: after clear_all_data the pending batch is empty, so that no sample
\* received before the reset reaches the sample window by a later flush.
C35_ResetEmptiesBatch ==
    call.op = "clear_all_data" => coordinator.temp_buffer = <<>>

\* C36: over any sequence of open_serial calls, close_serial calls and read
\* errors, the lifecycle signals alternate, starting with port_opened: each
\* port_opened is followed by exactly one port_closed before the next
\* port_opened, and no port_closed comes without a port_opened before it.
C36_LifecyclePaired == manager.lifecycle # "unpaired"

\* no read error has been raised on the connection the last call opened: an
\* error the reader was already handling when the call was made belongs to
\* the connection before
NoReadErrorSinceCall ==
    reader.error = NoError \/ api.reader_pc \in {"except", "finally"}

\* C37: after open_serial, called while a connection is open, has returned
\* True, and until close_serial is called or a read error occurs, connected
\* is True, the new transport is open and a reader loop runs on it: the
\* ending reader loop of the connection before neither closes the new
\* transport nor resets connected.
C37_ReopenStays ==
    (api.op = "open_serial" /\ manager.result = "True" /\ api.was_open
        /\ NoReadErrorSinceCall) =>
        /\ manager.connected
        /\ wrapper_is_open(manager.serial_port)
        /\ reader.pc \notin {"not_started", "finished"}

\* C38: when a reader loop starts, the decoder is in sync-search with an
\* empty payload, so that a partial packet left by the connection before
\* does not reach the records of the new connection.
C38_DecoderFreshAtStart ==
    reader.pc = "run_entry" => (parser.state = 0 /\ parser.payload_data = <<>>)

(***************************************************************************)
(* The FrequencyBandProcessor on its own                                   *)
(***************************************************************************)
MaxBandSamples == 132

\* add_eeg_data(eeg_value); the n-th sample has value n
BandAddEegData ==
    /\ band_processor.n < MaxBandSamples
    /\ band_processor' = [f |-> add_eeg_data(band_processor.f, band_processor.n + 1),
                          op |-> "add_eeg_data", n |-> band_processor.n + 1]
    /\ UNCHANGED <<accumulator, aggregator, pvars, cvars, svars>>

\* clear_buffers()
BandClearBuffers ==
    /\ band_processor.op # "clear_buffers"
    /\ band_processor' = [band_processor EXCEPT !.f = fbp_clear_buffers(@),
                                                !.op = "clear_buffers"]
    /\ UNCHANGED <<accumulator, aggregator, pvars, cvars, svars>>

BandSpecInit == CoordSpecInit

BandNext == BandAddEegData \/ BandClearBuffers

BandSpec == BandSpecInit /\ [][BandNext]_vars

Bp == band_processor.f

\* the histories are of one length, within buffer_size, and empty (every
\* latest band value reads 0.0) while the window holds fewer than 64 samples
BandHistoriesAligned ==
    /\ \A b \in BandNames : Len(Bp.filtered_signals[b]) = Len(Bp.filtered_signals["delta"])
    /\ Len(Bp.filtered_signals["delta"]) <= Bp.buffer_size
    /\ Len(Bp.raw_eeg_buffer) < MinFilterSamples =>
          /\ \A b \in BandNames : Bp.filtered_signals[b] = <<>>
          /\ \A b \in BandNames : get_latest_frequency_band_data(Bp)[b] = latest_of(<<>>)

\* a recompute appends one value to every band history, the oldest value
\* leaving a full history; without a recompute a history changes only by
\* being cleared
BandRecomputeAppendsOne ==
    LET g == band_processor'.f
    IN \A b \in BandNames :
         LET old == Bp.filtered_signals[b]
             new == g.filtered_signals[b]
         IN IF g.n_process_frequency_bands = Bp.n_process_frequency_bands + 1
            THEN /\ new # <<>>
                 /\ SubSeq(new, 1, Len(new) - 1)
                       = (IF Len(old) < Bp.buffer_size THEN old ELSE Tail(old))
            ELSE /\ g.n_process_frequency_bands = Bp.n_process_frequency_bands
                 /\ new = old \/ (new = <<>> /\ band_processor'.op = "clear_buffers")

\* C39: after any sequence of add_eeg_data and clear_buffers, the 8 band
\* histories have one length, which never exceeds buffer_size; a recompute
\* appends exactly one value to every band; and there is no recompute (every
\* latest band value reads 0.0) while the window holds fewer than 64 samples
\* since the last clear.
C39_BandHistories == []BandHistoriesAligned /\ [][BandRecomputeAppendsOne]_vars

\* the histories are full and a recompute has just replaced their oldest value
C39_Witness ==
    /\ band_processor.op = "add_eeg_data"
    /\ Len(Bp.filtered_signals["gamma_high"]) = Bp.buffer_size
    /\ Bp.n_process_frequency_bands > Bp.buffer_size

(***************************************************************************)
(* The decoder fed one accepted packet whose payload is abandoned          *)
(***************************************************************************)

\* well-formed items
Items ==
    {<<ATTENTION, 50>>, <<POOR_SIGNAL, 0>>, <<MEDITATION, 100>>, <<BLINK, 7>>,
     <<RAW_VALUE, 255, 254>>, <<EEG_POWER, 24>> \o [k \in 1..24 |-> k]}

\* the bytes at and after the abort point: an unknown tag, alone and followed
\* by the bytes of well-formed items, and items cut short by the payload's end
Tails ==
    {<<255>>, <<255, ATTENTION, 50>>, <<1, RAW_VALUE, 0, 1>>,
     <<ATTENTION>>, <<RAW_VALUE>>, <<RAW_VALUE, 1>>, <<EEG_POWER, 24, 0, 0>>}

MaxItems == 2

ItemSeqs == UNION {[1..n -> Items] : n \in 0..MaxItems}

AbortSpecInit ==
    /\ parser = ParserInit
    /\ \E items \in ItemSeqs, tail \in Tails :
          segs = <<FrameSeg(Flatten(items) \o tail, TRUE)>>
    /\ pos = 0
    /\ returned = <<>>
    /\ CoordVarsInit

AbortSpec == AbortSpecInit /\ [][ParserNext]_vars

\* the record of a well-formed item
RecordOf(item) ==
    CASE item[1] = ATTENTION -> [type |-> "attention", attention |-> item[2]]
      [] item[1] = POOR_SIGNAL -> [type |-> "signal_quality", signal_quality |-> item[2]]
      [] item[1] = MEDITATION -> [type |-> "meditation", meditation |-> item[2]]
      [] item[1] = BLINK -> [type |-> "blink", blink_strength |-> item[2]]
      [] item[1] = RAW_VALUE -> RawRecord(item[2], item[3])
      [] item[1] = EEG_POWER ->
           [type |-> "eeg_power",
            eeg_power |-> [k \in 1..8 |-> (item[3 * k] * 256 + item[3 * k + 1]) * 256
                                            + item[3 * k + 2]]]

\* C40: of an accepted packet whose payload holds well-formed items followed
\* by an unknown tag or a truncated item, the records of the items before the
\* abort point are emitted in payload order, and no record is emitted for
\* anything at or after the abort point.
C40_AbortKeepsPrefix ==
    \A items \in ItemSeqs, tail \in Tails :
        segs[1].payload = Flatten(items) \o tail =>
            /\ Len(returned) <= Len(items)
            /\ AllRead => returned = [i \in 1..Len(items) |-> RecordOf(items[i])]

\* two items were decoded and the bytes of a third, after an unknown tag, were not
C40_Witness ==
    /\ AllRead
    /\ \E items \in ItemSeqs :
          /\ Len(items) = 2 /\ items[1] # items[2]
          /\ segs[1].payload = Flatten(items) \o <<255, ATTENTION, 50>>
    /\ Len(returned) = 2
    /\ parser.state = 0

====
